---- MODULE Spec2Model ----
(***************************************************************************)
(* Model of the batched remote-metadata engine of lldb-objc: the class     *)
(* catalog and its per-process cache (objc_cls.py, objc_classes.py), the   *)
(* method catalog and its cache (scripts/objc_sel.py), the ivar, property  *)
(* and protocol enumerators, and the scratch memory they allocate inside   *)
(* the debugged process.                                                   *)
(*                                                                         *)
(* Every command is one action.  The debugged process is the environment:  *)
(* each remote expression evaluation and each memory read of a command     *)
(* either succeeds or fails, and the action draws that outcome with \E.    *)
(* Names are sequences of character codes, 0 is the C string terminator.   *)
(***************************************************************************)
EXTENDS Integers, Sequences, FiniteSets, TLC

VARIABLES
    _class_cache,        \* objc_cls._class_cache: pid -> entry
    legacy_class_cache,  \* objc_classes._class_cache: pid -> entry
    _selector_cache,     \* scripts/objc_sel._selector_cache: pid -> class -> entry
    remote_heap,         \* pid -> scratch blocks still allocated in the target
    history,             \* pid -> the EnumerateAll calls since the last clear or reload
    breakpoints,         \* pid -> the addresses obrk and owatch set breakpoints at
    _active_watches_by_process,  \* scripts/objc_watch: pid -> breakpoint id -> watch info
    lldb_target,         \* pid -> the owatch breakpoints of the target, the next
                         \* breakpoint id and the lines logged per breakpoint
    last                 \* what the last command did and returned

vars ==
    <<_class_cache, legacy_class_cache, _selector_cache, remote_heap, history, breakpoints,
      _active_watches_by_process, lldb_target, last>>

watch_vars == <<_active_watches_by_process, lldb_target>>

(***************************************************************************)
(* Bounds of the model and constants of the program.                       *)
(***************************************************************************)
MaxClasses == 2
LongLen == 39
MaxMembers == 2
DEFAULT_BATCH_SIZE == 35
SEL_BATCH_SIZE == 50
STRING_ESTIMATE == 40
\* 0xFFFFFFFF, the all-ones 32-bit offset; no real offset equals it.
SENTINEL == -1

None == <<-1>>
NoEntry == [present |-> FALSE, classes |-> <<>>, count |-> 0]

\* Character codes.
STAR == 42
QMARK == 63
DOT == 46
BACKSLASH == 92
LINE_BREAK == 10

Foo == <<70, 111, 111>>
FooBar == <<70, 111, 111, 66, 97, 114>>
Baz == <<66, 97, 122>>
Qux == <<81, 117, 120>>
\* A long class name (a mangled Swift class, for instance).
LongName == [i \in 1..LongLen |-> IF i = 1 THEN 76 ELSE 120]

\* The names class_getName reports for the class pointers of the targets.
NameTable == <<Foo, LongName, FooBar, Baz, Qux>>

\* The processes a behaviour debugs are the keys of remote_heap.
Pids == DOMAIN remote_heap

\* objc_copyClassList of each process: the first process has MaxClasses
\* classes, the second a single one, the third Foo, FooBar, Baz and Qux.
ClassList(pid) ==
    IF pid = 1 THEN [i \in 1..MaxClasses |-> i]
    ELSE IF pid = 2 THEN <<4>>
    ELSE <<1, 3, 4, 5>>

class_getName(ptr) == NameTable[((ptr - 1) % Len(NameTable)) + 1]

NamesOf(ptrs) == [i \in 1..Len(ptrs) |-> class_getName(ptrs[i])]

FooStar == <<70, 111, 111, STAR>>

Patterns == {None, FooStar, Foo, LongName}

BatchSizes == {1, DEFAULT_BATCH_SIZE}

\* The class names given to osel; Qux is not a class of the process.
SelClasses == {Foo, Qux}

NoSelEntry == [present |-> FALSE, instance |-> <<>>, class |-> <<>>]

Min(a, b) == IF a < b THEN a ELSE b

\* The items of a list, as a set.
SeqSet(s) == {s[i] : i \in 1..Len(s)}

(***************************************************************************)
(* Pattern matching of the class finder.                                   *)
(***************************************************************************)
Lower(c) == IF c >= 65 /\ c <= 90 THEN c + 32 ELSE c

has_wildcards(pattern) ==
    \E i \in 1..Len(pattern) : pattern[i] = STAR \/ pattern[i] = QMARK

\* The characters re.escape puts a backslash before.
_special_chars ==
    {9, 10, 11, 12, 13, 32, 35, 36, 38, 40, 41, 42, 43, 45, 46, 63, 91, 92, 93, 94,
     123, 124, 125, 126}

re_escape_nothing(pattern) == pattern

RECURSIVE re_escape(_)
re_escape(pattern) ==
    IF pattern = <<>> THEN <<>>
    ELSE (IF Head(pattern) \in _special_chars THEN <<BACKSLASH, Head(pattern)>>
          ELSE <<Head(pattern)>>) \o re_escape(Tail(pattern))

\* str.replace: the occurrences of old from left to right, without overlap.
RECURSIVE replace(_, _, _)
replace(s, old, new) ==
    IF Len(s) < Len(old) THEN s
    ELSE IF SubSeq(s, 1, Len(old)) = old
    THEN new \o replace(SubSeq(s, Len(old) + 1, Len(s)), old, new)
    ELSE <<Head(s)>> \o replace(Tail(s), old, new)

\* The wildcard pattern as a regular expression, between '^' and '$'.
regex_pattern(pattern) ==
    replace(replace(re_escape(pattern), <<BACKSLASH, STAR>>, <<DOT, STAR>>),
            <<BACKSLASH, QMARK>>, <<DOT>>)

\* re.match('^' + r + '$', s, re.IGNORECASE), for the expressions
\* regex_pattern builds: does r from position i on match s from position j
\* on.  '.' takes any character but a line break, a backslash makes the next
\* character literal, and '$' holds at the end of s and before a line break
\* that ends s.
RECURSIVE regex_match_from(_, _, _, _)
regex_match_from(r, s, i, j) ==
    IF i > Len(r) THEN j > Len(s) \/ (j = Len(s) /\ s[j] = LINE_BREAK)
    ELSE IF r[i] = DOT /\ i < Len(r) /\ r[i + 1] = STAR
    THEN \E k \in j..(Len(s) + 1) :
            /\ \A m \in j..(k - 1) : s[m] # LINE_BREAK
            /\ regex_match_from(r, s, i + 2, k)
    ELSE IF r[i] = DOT
    THEN j <= Len(s) /\ s[j] # LINE_BREAK /\ regex_match_from(r, s, i + 1, j + 1)
    ELSE IF r[i] = BACKSLASH /\ i < Len(r)
    THEN j <= Len(s) /\ Lower(r[i + 1]) = Lower(s[j])
                     /\ regex_match_from(r, s, i + 2, j + 1)
    ELSE j <= Len(s) /\ Lower(r[i]) = Lower(s[j]) /\ regex_match_from(r, s, i + 1, j + 1)

regex_match(p, s) == regex_match_from(regex_pattern(p), s, 1, 1)

matches_pattern_folded(class_name, pattern) ==
    IF pattern = None THEN TRUE
    ELSE IF has_wildcards(pattern) THEN regex_match(pattern, class_name)
    ELSE [i \in 1..Len(class_name) |-> Lower(class_name[i])]
            = [i \in 1..Len(pattern) |-> Lower(pattern[i])]

matches_pattern(class_name, pattern) ==
    IF pattern = None THEN TRUE
    ELSE IF has_wildcards(pattern) THEN regex_match(pattern, class_name)
    ELSE class_name = pattern

Filter(names, pattern) == SelectSeq(names, LAMBDA c : matches_pattern(c, pattern))

(***************************************************************************)
(* The consolidated buffer: what the batch expression leaves in the        *)
(* target (an offset table and a string heap) and how it is parsed.        *)
(***************************************************************************)
\* The block built by build_batch_expression, run in the target on a batch
\* of class pointers: offsets[i] for each item, then the heap length.
RECURSIVE build_batch_expression(_, _, _, _)
build_batch_expression(batch, i, offsets, string_data) ==
    IF i > Len(batch)
    THEN [offsets |-> Append(offsets, Len(string_data)), string_data |-> string_data]
    ELSE IF batch[i] # 0
         THEN LET name == class_getName(batch[i])
                  current_offset == Len(string_data)
                  len == Len(name) + 1
              IN  IF current_offset + len < STRING_ESTIMATE * Len(batch)
                  THEN build_batch_expression(batch, i + 1,
                           Append(offsets, current_offset), string_data \o name \o <<0>>)
                  ELSE build_batch_expression(batch, i + 1,
                           Append(offsets, current_offset), string_data)
         ELSE build_batch_expression(batch, i + 1, Append(offsets, SENTINEL), string_data)

\* bytes.find(b'\0', start): the 0-based position of the first terminator at
\* or after start, or -1.
find_null(string_data, start) ==
    LET hits == {k \in (start + 1)..Len(string_data) : string_data[k] = 0}
    IN  IF hits = {} THEN -1
        ELSE (CHOOSE k \in hits : \A m \in hits : k <= m) - 1

\* string_data[a:b] of Python for a, b >= 0.
PySlice(string_data, a, b) ==
    IF Min(b, Len(string_data)) <= a THEN <<>>
    ELSE SubSeq(string_data, a + 1, Min(b, Len(string_data)))

\* The extraction loop of read_consolidated_string_buffer (0-based item i).
RECURSIVE read_consolidated_string_buffer(_, _, _, _, _)
read_consolidated_string_buffer(offsets, string_data, batch_size, i, class_names) ==
    IF i >= batch_size THEN class_names
    ELSE LET offset == offsets[i + 1]
             use_next == i + 1 < batch_size /\ offsets[i + 2] # SENTINEL
             null_pos == find_null(string_data, offset)
             next_offset == IF use_next THEN offsets[i + 2] ELSE null_pos + 1
         IN  IF offset = SENTINEL \/ (~use_next /\ null_pos = -1)
             THEN read_consolidated_string_buffer(offsets, string_data, batch_size,
                      i + 1, class_names)
             ELSE read_consolidated_string_buffer(offsets, string_data, batch_size,
                      i + 1, Append(class_names, PySlice(string_data, offset, next_offset - 1)))

\* The names a batch yields when its expression and both reads succeed.
DecodeBatch(batch) ==
    LET buf == build_batch_expression(batch, 1, <<>>, <<>>)
    IN  read_consolidated_string_buffer(buf.offsets, buf.string_data, Len(batch), 0, <<>>)

(***************************************************************************)
(* The debugged process as environment: the remote calls of a command      *)
(* that fail, as a set of fault points [kind, idx].                        *)
(*   exact1, exact2   the two expressions of the exact lookup              *)
(*   alloc, list, count, array   the setup steps of an enumeration         *)
(*   expr      the compound expression of batch idx fails                  *)
(*   null      the block of batch idx returns a null buffer                *)
(*   offread   the offset-table read of batch idx fails                    *)
(*   heapread  the heap read of batch idx fails                            *)
(*   item      the per-item expression of list position idx fails          *)
(* A command meets one failing setup step or one batch in trouble.         *)
(***************************************************************************)
Fault(kind, idx) == [kind |-> kind, idx |-> idx]

NoFaults == {}

SetupKinds == {"alloc", "list", "count", "array"}
BatchKinds == {"expr", "null", "offread", "heapread"}

NumBatches(n, batch_size) == (n + batch_size - 1) \div batch_size

\* range(batch_idx, batch_end) of batch k (1-based k, 1-based positions).
BatchFirst(k, batch_size) == (k - 1) * batch_size + 1
BatchLast(k, batch_size, n) == Min(k * batch_size, n)
BatchOf(ptrs, k, batch_size) ==
    SubSeq(ptrs, BatchFirst(k, batch_size), BatchLast(k, batch_size, Len(ptrs)))
BatchIndexOf(i, batch_size) == ((i - 1) \div batch_size) + 1

\* The outcome of batch k under the faults F.
BatchOutcome(F, k) ==
    IF \E f \in F : f.idx = k /\ f.kind \in BatchKinds
    THEN (CHOOSE f \in F : f.idx = k /\ f.kind \in BatchKinds).kind
    ELSE "ok"

SetupOutcome(F) ==
    IF \E f \in F : f.kind \in SetupKinds
    THEN (CHOOSE f \in F : f.kind \in SetupKinds).kind
    ELSE "ok"

\* The fault sets that differ for the batch loop over n pointers: no
\* fault, or one batch in trouble.  A batch whose compound expression
\* failed is the only place per-item calls are made, so only there can
\* per-item calls fail as well.
LoopFaults(n, batch_size) ==
    {NoFaults}
    \cup {{Fault(kd, k)} : kd \in BatchKinds \ {"expr"}, k \in 1..NumBatches(n, batch_size)}
    \cup UNION {{{Fault("expr", k)} \cup {Fault("item", i) : i \in I} :
                   I \in SUBSET (BatchFirst(k, batch_size)..BatchLast(k, batch_size, n))} :
                k \in 1..NumBatches(n, batch_size)}

EnumFaults(n, batch_size) ==
    {{Fault(kd, 0)} : kd \in SetupKinds} \cup LoopFaults(n, batch_size)

Block(kind, idx) == [kind |-> kind, idx |-> idx]

\* What the target of a session may do to a command: the kinds of fault its
\* class enumeration and its other enumerations may meet, and the batch
\* sizes in use.
AnyKind ==
    {"alloc", "list", "count", "array", "expr", "null", "offread", "heapread",
     "inforead", "item", "cstr", "exact1", "exact2", "class", "meta", "proto"}

Troubled == [classes |-> AnyKind, members |-> AnyKind, sizes |-> BatchSizes]

Within(Fs, kinds) == {F \in Fs : \A f \in F : f.kind \in kinds}

(***************************************************************************)
(* objc_cls.get_all_classes and what it calls.                             *)
(***************************************************************************)
NoRemote == [names |-> <<>>, allocs |-> {}, frees |-> {}, evals |-> 0, reads |-> 0]

BufferFrees_leak(o, buffer) == IF o = "ok" THEN {buffer} ELSE {}

\* The buffer of a batch is freed by read_consolidated_string_buffer: after
\* a failed offset-table read, and after the heap read whether it failed or
\* not.  A failed expression or a null result leaves no buffer.
BufferFrees(o, buffer) == IF o \in {"ok", "offread", "heapread"} THEN {buffer} ELSE {}

BufferAllocs(o, buffer) == IF o \in {"ok", "offread", "heapread"} THEN {buffer} ELSE {}

\* The positions of a batch that the per-item fallback resolves.
SerialKept(batch, first, F) ==
    SelectSeq([j \in 1..Len(batch) |-> j],
              LAMBDA j : batch[j] # 0 /\ Fault("item", first + j - 1) \notin F)

SerialFallback_dropped(batch, first, F) == <<>>

\* The per-item fallback of a batch: one class_getName expression per item.
SerialFallback(batch, first, F) ==
    LET kept == SerialKept(batch, first, F)
    IN  [j \in 1..Len(kept) |-> class_getName(batch[kept[j]])]

\* What batch k of the loop adds under the faults F.
BatchStep(ptrs, k, batch_size, F) ==
    LET batch == BatchOf(ptrs, k, batch_size)
        o == BatchOutcome(F, k)
        buffer == Block("batch_buffer", k)
        serial == { j \in 1..Len(batch) : batch[j] # 0 }
    IN  [names |-> CASE o = "ok" -> DecodeBatch(batch)
                     [] o = "expr" -> SerialFallback(batch, BatchFirst(k, batch_size), F)
                     [] OTHER -> <<>>,
         allocs |-> BufferAllocs(o, buffer),
         frees |-> BufferFrees(o, buffer),
         evals |-> CASE o = "expr" -> 1 + Cardinality(serial)
                     [] o = "null" -> 1
                     [] OTHER -> 2,
         reads |-> CASE o \in {"ok", "heapread"} -> 2
                     [] o = "offread" -> 1
                     [] OTHER -> 0]

RECURSIVE BatchLoop(_, _, _, _, _)
BatchLoop(ptrs, k, batch_size, F, acc) ==
    IF k > NumBatches(Len(ptrs), batch_size) THEN acc
    ELSE LET b == BatchStep(ptrs, k, batch_size, F)
         IN  BatchLoop(ptrs, k + 1, batch_size, F,
                 [names |-> acc.names \o b.names,
                  allocs |-> acc.allocs \cup b.allocs,
                  frees |-> acc.frees \cup b.frees,
                  evals |-> acc.evals + b.evals,
                  reads |-> acc.reads + b.reads])

ClassExists(pid, name) ==
    \E i \in 1..Len(ClassList(pid)) : class_getName(ClassList(pid)[i]) = name

try_exact_class_match_unconfirmed(pid, class_name, F) ==
    IF Fault("exact1", 0) \in F THEN [found |-> FALSE, evals |-> 1]
    ELSE [found |-> ClassExists(pid, class_name), evals |-> 1]

\* try_exact_class_match: NSClassFromString, then class_getName to confirm.
try_exact_class_match(pid, class_name, F) ==
    IF Fault("exact1", 0) \in F THEN [found |-> FALSE, evals |-> 1]
    ELSE IF ~ClassExists(pid, class_name) THEN [found |-> FALSE, evals |-> 1]
    ELSE IF Fault("exact2", 0) \in F THEN [found |-> FALSE, evals |-> 2]
    ELSE [found |-> TRUE, evals |-> 2]

IsPlain(pattern) == pattern # None /\ ~has_wildcards(pattern)

CountVar == Block("count_var", 0)
ListArray == Block("list_array", 0)

\* The steps of get_all_classes from the count allocation to the cleanup,
\* for the class list of pid: done is FALSE on the early returns.
EnumerateRuntime(pid, batch_size, F) ==
    LET setup == SetupOutcome(F)
        both == {CountVar, ListArray}
    IN  CASE setup = "alloc" ->
               [NoRemote EXCEPT !.evals = 1] @@ [done |-> FALSE]
          [] setup = "list" ->
               [NoRemote EXCEPT !.evals = 3, !.allocs = {CountVar}, !.frees = {CountVar}]
               @@ [done |-> FALSE]
          [] setup = "count" ->
               [NoRemote EXCEPT !.evals = 5, !.allocs = both, !.frees = both]
               @@ [done |-> FALSE]
          [] setup = "array" ->
               [NoRemote EXCEPT !.evals = 5, !.reads = 1, !.allocs = both, !.frees = both]
               @@ [done |-> FALSE]
          [] OTHER ->
               LET loop == BatchLoop(ClassList(pid), 1, batch_size, F,
                               [NoRemote EXCEPT !.evals = 3, !.reads = 1, !.allocs = both])
               IN  [loop EXCEPT !.evals = loop.evals + 2, !.frees = loop.frees \cup both]
                   @@ [done |-> TRUE]

\* Every process the model can debug, and what each enumeration of its
\* class list does under each batch size and each set of faults.
AllPids == {1, 2, 3}

FaultTable ==
    [pid \in AllPids |-> [batch_size \in BatchSizes |->
        EnumFaults(Len(ClassList(pid)), batch_size)]]

RuntimeTable ==
    [pid \in AllPids |-> [batch_size \in BatchSizes |->
        [F \in FaultTable[pid][batch_size] |-> EnumerateRuntime(pid, batch_size, F)]]]

\* The names the runtime walk of a call resolves (none when it aborts).
Resolved(pid, batch_size, F) ==
    IF F \in DOMAIN RuntimeTable[pid][batch_size]
    THEN RuntimeTable[pid][batch_size][F].names ELSE <<>>

CacheStore_dropped(class_names, class_count) == NoEntry

\* "_class_cache[pid] = {'classes': class_names, 'count': class_count, ...}".
CacheStore(class_names, class_count) ==
    [present |-> TRUE, classes |-> class_names, count |-> class_count]

\* What a call returns and does: shape is "tuple" for the declared
\* (names, timing, count, from_cache) and "list" for the bare [] of the
\* early returns; entry is the cache entry of pid after the call; aliased
\* says that the returned list is the very list object held by the entry.
Result_storing(shape, path, names, count, from_cache, aliased, entry, r) ==
    [shape |-> shape, path |-> path, names |-> names, count |-> count,
     from_cache |-> from_cache, aliased |-> aliased,
     entry |-> IF shape = "tuple" THEN CacheStore(names, count) ELSE entry,
     allocs |-> r.allocs, frees |-> r.frees, evals |-> r.evals, reads |-> r.reads]

Result(shape, path, names, count, from_cache, aliased, entry, r) ==
    [shape |-> shape, path |-> path, names |-> names, count |-> count,
     from_cache |-> from_cache, aliased |-> aliased, entry |-> entry,
     allocs |-> r.allocs, frees |-> r.frees, evals |-> r.evals, reads |-> r.reads]

CacheHit_despite_reload(entry, force_reload) == entry.present

\* "if not force_reload and pid in _class_cache".
CacheHit(entry, force_reload) == ~force_reload /\ entry.present

CachedResult_unfiltered(entry, pattern) == entry.classes

\* The filtered list a cache hit hands back.
CachedResult(entry, pattern) == Filter(entry.classes, pattern)

get_all_classes(entry, pid, pattern, force_reload, batch_size, F) ==
    IF IsPlain(pattern)
    THEN LET exact == try_exact_class_match(pid, pattern, F)
         IN  IF exact.found
             THEN Result("tuple", "fast", <<pattern>>, 1, FALSE, FALSE, entry,
                         [NoRemote EXCEPT !.evals = exact.evals])
             ELSE Result("tuple", "fast", <<>>, 0, FALSE, FALSE, entry,
                         [NoRemote EXCEPT !.evals = exact.evals])
    ELSE IF CacheHit(entry, force_reload)
    THEN Result("tuple", "hit", CachedResult(entry, pattern), entry.count, TRUE,
                pattern = None, entry, NoRemote)
    ELSE LET r == RuntimeTable[pid][batch_size][F]
         IN  IF ~r.done
             THEN Result("list", "abort", <<>>, 0, FALSE, FALSE, entry, r)
             ELSE Result("tuple", "miss", Filter(r.names, pattern),
                         Len(ClassList(pid)), FALSE, pattern = None,
                         CacheStore(r.names, Len(ClassList(pid))), r)

\* The fault sets and batch sizes that make a difference to a call.
ExactFaults == {NoFaults, {Fault("exact1", 0)}, {Fault("exact2", 0)}}

CallFaults(entry, pid, pattern, force_reload, batch_size) ==
    IF IsPlain(pattern) THEN ExactFaults
    ELSE IF CacheHit(entry, force_reload) THEN {NoFaults}
    ELSE FaultTable[pid][batch_size]

CallBatchSizes(entry, pattern, force_reload) ==
    IF IsPlain(pattern) \/ CacheHit(entry, force_reload)
    THEN {DEFAULT_BATCH_SIZE} ELSE BatchSizes

(***************************************************************************)
(* Observation variables.  history counts, per process, the completed      *)
(* enumerations since the last clear or reload, remembers the first result *)
(* each pattern got, and keeps the names the runtime walk resolved when it *)
(* populated the cache (full for objc_cls, legacy_full for objc_classes),  *)
(* and the classes whose methods were enumerated since the last clear of   *)
(* their method lists (methods); last describes the last command.          *)
(***************************************************************************)
NotSeen == [seen |-> FALSE, names |-> <<>>, count |-> 0]

WildPatterns == {p \in Patterns : ~IsPlain(p)}

FreshHistory ==
    [n |-> 0, epoch |-> "fresh", seen |-> [p \in WildPatterns |-> NotSeen],
     full |-> <<>>, legacy_full |-> <<>>, methods |-> {}]

Idle ==
    [op |-> "none", pid |-> 0, pattern |-> None, force_reload |-> FALSE,
     cleared |-> FALSE, path |-> "none", shape |-> "none", names |-> <<>>,
     count |-> 0, from_cache |-> FALSE, aliased |-> FALSE, crashed |-> FALSE,
     evals |-> 0, reads |-> 0, batch_size |-> 0, env |-> NoFaults,
     show |-> "none", members |-> <<>>, menv |-> NoFaults,
     class_name |-> None, top |-> "ok",
     selector |-> None, steps |-> <<>>, error |-> "none", addr |-> 0,
     symbol |-> None, inherited_from |-> None]

\* A call that ran the catalog (cached or not) and returned its report.
Completed(r) == r.shape = "tuple" /\ r.path \in {"hit", "miss"}

Seen(r) == [seen |-> TRUE, names |-> r.names, count |-> r.count]

HistoryAfter(h, pattern, force_reload, r, resolved) ==
    IF ~Completed(r) THEN h
    ELSE IF force_reload
    THEN [h EXCEPT !.n = 1, !.epoch = "reload", !.full = resolved,
                   !.seen = [p \in WildPatterns |->
                                IF p = pattern THEN Seen(r) ELSE NotSeen]]
    ELSE [h EXCEPT !.n = Min(h.n + 1, 2),
                   !.seen[pattern] = IF @.seen THEN @ ELSE Seen(r),
                   !.full = IF r.path = "miss" THEN resolved ELSE @]

ClearedHistory(h) ==
    [FreshHistory EXCEPT !.epoch = "clear", !.legacy_full = h.legacy_full,
                         !.methods = h.methods]

Observe(op, pid, pattern, force_reload, cleared, batch_size, F, r) ==
    [op |-> op, pid |-> pid, pattern |-> pattern, force_reload |-> force_reload,
     cleared |-> cleared, path |-> r.path, shape |-> r.shape, names |-> r.names,
     count |-> r.count, from_cache |-> r.from_cache, aliased |-> r.aliased,
     crashed |-> r.shape = "list", evals |-> r.evals, reads |-> r.reads,
     batch_size |-> batch_size, env |-> F,
     show |-> "none", members |-> <<>>, menv |-> NoFaults,
     class_name |-> None, top |-> "ok",
     selector |-> None, steps |-> <<>>, error |-> "none", addr |-> 0,
     symbol |-> None, inherited_from |-> None]

(***************************************************************************)
(* The enumerators of ivars, properties, methods and protocols.  All four  *)
(* copy a runtime list, read its pointer array, and resolve the items in   *)
(* batches through an info block allocated in the target; the faults are   *)
(*   class     NSClassFromString fails (ivars and properties)              *)
(*   alloc, list, count, array   the setup steps                           *)
(*   expr      the batch expression of batch idx fails                     *)
(*   null      the block of batch idx returns a null info pointer          *)
(*   inforead  the read of the info block of batch idx fails               *)
(*   item      the per-item expression of position idx fails               *)
(*   cstr      the read of the name string of position idx fails           *)
(***************************************************************************)
InfoBatchKinds == {"expr", "null", "inforead"}

InfoOutcome(F, k) ==
    IF \E f \in F : f.idx = k /\ f.kind \in InfoBatchKinds
    THEN (CHOOSE f \in F : f.idx = k /\ f.kind \in InfoBatchKinds).kind
    ELSE "ok"

InfoFaults(n, batch_size, setup_kinds) ==
    {NoFaults}
    \cup {{Fault(kd, 0)} : kd \in setup_kinds \ (IF n = 0 THEN {"array"} ELSE {})}
    \cup {{Fault(kd, k)} : kd \in {"null", "inforead"}, k \in 1..NumBatches(n, batch_size)}
    \cup {{Fault("cstr", i)} : i \in 1..n}
    \cup UNION {{{Fault("expr", k)} \cup {Fault("item", i) : i \in I} :
                   I \in SUBSET (BatchFirst(k, batch_size)..BatchLast(k, batch_size, n))} :
                k \in 1..NumBatches(n, batch_size)}

InfoFrees_leak(o, buffer) == IF o = "ok" THEN {buffer} ELSE {}

\* "free(info_ptr)" follows the read of the info block whether it succeeded
\* or not; a failed expression or a null pointer leaves nothing to free.
InfoFrees(o, buffer) == IF o \in {"ok", "inforead"} THEN {buffer} ELSE {}

InfoAllocs(o, buffer) == IF o \in {"ok", "inforead"} THEN {buffer} ELSE {}

\* The positions of batch k that keep their item: on the batched path those
\* whose name string can be read, on the per-item path those whose
\* expression succeeds, and none when the info block is null or unreadable.
InfoKept(n, k, batch_size, F) ==
    LET o == InfoOutcome(F, k)
        lost == IF o = "ok" THEN "cstr" ELSE "item"
    IN  IF o \in {"null", "inforead"} THEN <<>>
        ELSE SelectSeq([j \in 1..(BatchLast(k, batch_size, n) - BatchFirst(k, batch_size) + 1)
                          |-> BatchFirst(k, batch_size) + j - 1],
                       LAMBDA p : Fault(lost, p) \notin F)

\* Python's None for an ivar offset, and a known offset.
NoOffset == [known |-> FALSE, value |-> 0]
Offset(v) == [known |-> TRUE, value |-> v]

\* The value of an item as the batched path builds it from the info block:
\* an ivar's offset_val is kept "if offset_val != 0 else None".
Batched(kind, item) ==
    IF kind = "ivars"
    THEN [name |-> item.name, type |-> item.type,
          offset |-> IF item.offset # 0 THEN Offset(item.offset) ELSE NoOffset]
    ELSE item

\* The value of an item as the per-item expressions build it.
Serial(kind, item) ==
    IF kind = "ivars"
    THEN [name |-> item.name, type |-> item.type, offset |-> Offset(item.offset)]
    ELSE item

\* Expressions per item on the per-item path, string reads per item on the
\* batched path.
item_evals(kind) ==
    CASE kind = "ivars" -> 3 [] kind = "properties" -> 2 [] kind = "methods" -> 2
      [] OTHER -> 1
item_reads(kind) ==
    CASE kind = "ivars" -> 2 [] kind = "properties" -> 2 [] OTHER -> 1

InfoBatchStep(kind, items, k, batch_size, F) ==
    LET o == InfoOutcome(F, k)
        buffer == Block("info", k)
        size == BatchLast(k, batch_size, Len(items)) - BatchFirst(k, batch_size) + 1
        kept == InfoKept(Len(items), k, batch_size, F)
    IN  [names |-> [j \in 1..Len(kept) |->
                      IF o = "ok" THEN Batched(kind, items[kept[j]])
                      ELSE Serial(kind, items[kept[j]])],
         allocs |-> InfoAllocs(o, buffer),
         frees |-> InfoFrees(o, buffer),
         evals |-> CASE o = "expr" -> 1 + item_evals(kind) * size
                     [] o = "null" -> 1
                     [] OTHER -> 2,
         reads |-> CASE o = "ok" -> 1 + item_reads(kind) * size
                     [] o = "inforead" -> 1
                     [] OTHER -> 0]

RECURSIVE InfoBatchLoop(_, _, _, _, _, _)
InfoBatchLoop(kind, items, k, batch_size, F, acc) ==
    IF k > NumBatches(Len(items), batch_size) THEN acc
    ELSE LET b == InfoBatchStep(kind, items, k, batch_size, F)
         IN  InfoBatchLoop(kind, items, k + 1, batch_size, F,
                 [names |-> acc.names \o b.names,
                  allocs |-> acc.allocs \cup b.allocs,
                  frees |-> acc.frees \cup b.frees,
                  evals |-> acc.evals + b.evals,
                  reads |-> acc.reads + b.reads])

\* Count variable, runtime copy of the list, count read, array read, batch
\* loop and cleanup, as get_methods_optimized, get_class_ivars,
\* get_class_properties and get_all_protocols all do them.  The runtime
\* returns a null list exactly when the count is zero.
InfoEnumerate(kind, items, batch_size, F) ==
    LET setup == SetupOutcome(F)
        both == {CountVar, ListArray}
        held == IF items = <<>> THEN {CountVar} ELSE both
    IN  IF setup = "alloc" THEN [NoRemote EXCEPT !.evals = 1]
        ELSE IF setup = "list"
        THEN [NoRemote EXCEPT !.evals = 3, !.allocs = {CountVar}, !.frees = {CountVar}]
        ELSE IF setup = "count"
        THEN [NoRemote EXCEPT !.evals = 3 + Cardinality(held),
                              !.allocs = held, !.frees = held]
        ELSE IF items = <<>>
        THEN [NoRemote EXCEPT !.evals = 4, !.allocs = {CountVar}, !.frees = {CountVar}]
        ELSE IF setup = "array"
        THEN [NoRemote EXCEPT !.evals = 5, !.reads = 1, !.allocs = both, !.frees = both]
        ELSE LET loop == InfoBatchLoop(kind, items, 1, batch_size, F,
                             [NoRemote EXCEPT !.evals = 3, !.reads = 1, !.allocs = both])
             IN  [loop EXCEPT !.evals = loop.evals + 2, !.frees = loop.frees \cup both]

(***************************************************************************)
(* get_class_ivars and get_class_properties.                               *)
(***************************************************************************)
\* The ivars and properties the runtime holds: Foo has MaxMembers of each,
\* the first ivar at offset 0; every other class has none.
IvarsOf(class_name) ==
    IF class_name = Foo
    THEN [i \in 1..MaxMembers |-> [name |-> i, type |-> "i", offset |-> 8 * (i - 1)]]
    ELSE <<>>

PropertiesOf(class_name) ==
    IF class_name = Foo
    THEN [i \in 1..MaxMembers |-> [name |-> i, attrs |-> "T@"]]
    ELSE <<>>

MembersOf(kind, class_name) ==
    IF kind = "ivars" THEN IvarsOf(class_name) ELSE PropertiesOf(class_name)

\* Both build one batch expression for the whole list.
MemberBatchSize(items) == IF items = <<>> THEN 1 ELSE Len(items)

MemberFaults(kind, class_name) ==
    LET items == MembersOf(kind, class_name)
    IN  InfoFaults(Len(items), MemberBatchSize(items),
                   {"class", "alloc", "list", "count", "array"})

get_class_members(kind, pid, class_name, G) ==
    IF Fault("class", 0) \in G \/ ~ClassExists(pid, class_name)
    THEN [NoRemote EXCEPT !.evals = 1]
    ELSE LET items == MembersOf(kind, class_name)
             r == InfoEnumerate(kind, items, MemberBatchSize(items), G)
         IN  [r EXCEPT !.evals = r.evals + 1]

get_class_ivars(pid, class_name, G) == get_class_members("ivars", pid, class_name, G)

get_class_properties(pid, class_name, G) ==
    get_class_members("properties", pid, class_name, G)

(***************************************************************************)
(* ocls: find_objc_classes [--clear-cache] [--reload] [pattern].           *)
(***************************************************************************)
\* The flags --ivars and --properties take effect when exactly one class
\* matches.  The trouble of a command is in its enumeration or in its
\* member query, not in both.
SingleMatch(r) == r.shape = "tuple" /\ Len(r.names) = 1

ShowFaults(show, r, F) ==
    IF show = "none" \/ ~SingleMatch(r) \/ F # NoFaults THEN {NoFaults}
    ELSE MemberFaults(show, r.names[1])

ShowMembers(show, pid, r, G) ==
    CASE show = "ivars" /\ SingleMatch(r) -> get_class_ivars(pid, r.names[1], G)
      [] show = "properties" /\ SingleMatch(r) -> get_class_properties(pid, r.names[1], G)
      [] OTHER -> NoRemote

del_class_cache_all(cache, pid) == [p \in DOMAIN cache |-> NoEntry]

\* "del _class_cache[pid]".
del_class_cache(cache, pid) == [cache EXCEPT ![pid] = NoEntry]

ocls(pid, clear_cache, force_reload, pattern, show, target) ==
    LET entry == IF clear_cache THEN NoEntry ELSE _class_cache[pid]
        h == IF clear_cache THEN ClearedHistory(history[pid]) ELSE history[pid]
    IN  IF clear_cache /\ pattern = None /\ ~force_reload
        THEN /\ _class_cache' = del_class_cache(_class_cache, pid)
             /\ history' = [history EXCEPT ![pid] = h]
             /\ last' = [Idle EXCEPT !.op = "ocls", !.pid = pid, !.cleared = TRUE,
                                     !.path = "clear"]
             /\ UNCHANGED <<breakpoints, watch_vars, legacy_class_cache, _selector_cache, remote_heap>>
        ELSE \E batch_size \in CallBatchSizes(entry, pattern, force_reload) \cap target.sizes :
             \E F \in Within(CallFaults(entry, pid, pattern, force_reload, batch_size),
                             target.classes) :
             \E r \in {get_all_classes(entry, pid, pattern, force_reload, batch_size, F)} :
             \E G \in Within(ShowFaults(show, r, F), target.members) :
             \E m \in {ShowMembers(show, pid, r, G)} :
                    /\ _class_cache' = [(IF clear_cache THEN del_class_cache(_class_cache, pid)
                                          ELSE _class_cache) EXCEPT ![pid] = r.entry]
                    /\ history' = [history EXCEPT
                                      ![pid] = HistoryAfter(h, pattern, force_reload, r,
                                                         Resolved(pid, batch_size, F))]
                    /\ remote_heap' = [remote_heap EXCEPT
                                          ![pid] = @ \cup (r.allocs \ r.frees)
                                                     \cup (m.allocs \ m.frees)]
                    /\ last' = [Observe("ocls", pid, pattern, force_reload, clear_cache,
                                        batch_size, F, r)
                                EXCEPT !.show = show, !.members = m.names, !.menv = G]
                    /\ UNCHANGED <<breakpoints, watch_vars, legacy_class_cache, _selector_cache>>

ClassCommands(target) ==
    \E pid \in Pids, clear_cache \in BOOLEAN, force_reload \in BOOLEAN,
       pattern \in Patterns :
        ocls(pid, clear_cache, force_reload, pattern, "none", target)

\* ocls --ivars and ocls --properties.
MemberCommands(target) ==
    \E pid \in Pids, pattern \in Patterns, show \in {"ivars", "properties"} :
        ocls(pid, FALSE, FALSE, pattern, show, target)


\* scripts/objc_watch.py: a watch table without an entry.
NoWatches == [bp_id \in {} |-> 0]

\* _active_watches_by_process starts empty and _get_watches_for_process
\* gives a process its empty table on first use; the target starts with no
\* owatch breakpoint, hands out ids from 1 and has logged nothing.
InitWatches(pids) ==
    /\ _active_watches_by_process = [pid \in pids |-> NoWatches]
    /\ lldb_target = [pid \in pids |->
                         [breakpoints |-> {}, next_id |-> 1, logged |-> NoWatches]]

InitFor(pids) ==
    /\ _class_cache = [pid \in pids |-> NoEntry]
    /\ legacy_class_cache = [pid \in pids |-> NoEntry]
    /\ _selector_cache = [pid \in pids |-> [c \in SelClasses |-> NoSelEntry]]
    /\ remote_heap = [pid \in pids |-> {}]
    /\ history = [pid \in pids |-> FreshHistory]
    /\ breakpoints = [pid \in pids |-> {}]
    /\ InitWatches(pids)
    /\ last = Idle

Init == InitFor({1})

Next == ClassCommands(Troubled)

Spec == Init /\ [][Next]_vars

NextMembers == MemberCommands(Troubled)

SpecMembers == Init /\ [][NextMembers]_vars

(***************************************************************************)
(* oclasses: the class finder of objc_classes.py, with its own cache.      *)
(***************************************************************************)
\* pattern.lower() in class_name.lower()
is_substring(pattern, class_name) ==
    \E k \in 0..(Len(class_name) - Len(pattern)) :
        \A i \in 1..Len(pattern) : Lower(class_name[k + i]) = Lower(pattern[i])

legacy_matches_pattern(class_name, pattern) ==
    IF pattern = None THEN TRUE
    ELSE IF has_wildcards(pattern) THEN regex_match(pattern, class_name)
    ELSE is_substring(pattern, class_name)

legacy_Filter(names, pattern) ==
    SelectSeq(names, LAMBDA c : legacy_matches_pattern(c, pattern))

\* The batch loop appends only the names that match the pattern of the call.
legacy_class_names(resolved, pattern) == legacy_Filter(resolved, pattern)

legacy_get_all_classes(entry, pid, pattern, force_reload, batch_size, F) ==
    IF ~force_reload /\ entry.present
    THEN Result("tuple", "hit", legacy_Filter(entry.classes, pattern), entry.count, TRUE,
                pattern = None, entry, NoRemote)
    ELSE LET r == RuntimeTable[pid][batch_size][F]
             class_names == legacy_class_names(r.names, pattern)
         IN  IF ~r.done
             THEN Result("list", "abort", <<>>, 0, FALSE, FALSE, entry, r)
             ELSE Result("tuple", "miss", legacy_Filter(class_names, pattern),
                         Len(ClassList(pid)), FALSE, pattern = None,
                         [present |-> TRUE, classes |-> class_names,
                          count |-> Len(ClassList(pid))], r)

oclasses(pid, clear_cache, force_reload, pattern) ==
    LET entry == IF clear_cache THEN NoEntry ELSE legacy_class_cache[pid]
        hit == ~force_reload /\ entry.present
    IN  IF clear_cache /\ pattern = None /\ ~force_reload
        THEN /\ legacy_class_cache' = [legacy_class_cache EXCEPT ![pid] = NoEntry]
             /\ last' = [Idle EXCEPT !.op = "oclasses", !.pid = pid, !.cleared = TRUE,
                                     !.path = "clear"]
             /\ UNCHANGED <<breakpoints, watch_vars, _class_cache, _selector_cache, remote_heap, history>>
        ELSE \E batch_size \in (IF hit THEN {DEFAULT_BATCH_SIZE} ELSE BatchSizes) :
             \E F \in (IF hit THEN {NoFaults} ELSE FaultTable[pid][batch_size]) :
             \E r \in {legacy_get_all_classes(entry, pid, pattern, force_reload, batch_size, F)} :
                    /\ legacy_class_cache' = [legacy_class_cache EXCEPT ![pid] = r.entry]
                    /\ history' = [history EXCEPT ![pid].legacy_full =
                                      IF r.path = "miss" THEN Resolved(pid, batch_size, F)
                                      ELSE @]
                    /\ remote_heap' = [remote_heap EXCEPT
                                          ![pid] = @ \cup (r.allocs \ r.frees)]
                    /\ last' = Observe("oclasses", pid, pattern, force_reload, clear_cache,
                                       batch_size, F, r)
                    /\ UNCHANGED <<breakpoints, watch_vars, _class_cache, _selector_cache>>

LegacyCommands ==
    \E pid \in Pids, clear_cache \in BOOLEAN, force_reload \in BOOLEAN,
       pattern \in Patterns : oclasses(pid, clear_cache, force_reload, pattern)

NextLegacy == LegacyCommands

SpecLegacy == Init /\ [][NextLegacy]_vars

(***************************************************************************)
(* A caller of get_all_classes that modifies the list it was handed (here  *)
(* list.pop()).  A Python list is shared by reference: when the returned   *)
(* list is the cache's own list object, the cache sees the change.         *)
(***************************************************************************)
CallerMutates(pid) ==
    /\ last.op = "ocls"
    /\ last.pid = pid
    /\ last.shape = "tuple"
    /\ Len(last.names) > 0
    /\ LET popped == SubSeq(last.names, 1, Len(last.names) - 1)
       IN  /\ last' = [last EXCEPT !.op = "caller", !.names = popped]
           /\ _class_cache' = IF last.aliased
                              THEN [_class_cache EXCEPT ![pid].classes = popped]
                              ELSE _class_cache
    /\ UNCHANGED <<breakpoints, watch_vars, legacy_class_cache, _selector_cache, remote_heap, history>>

NextCaller ==
    \/ ClassCommands(Troubled)
    \/ \E pid \in Pids : CallerMutates(pid)

SpecCaller == Init /\ [][NextCaller]_vars

(***************************************************************************)
(* osel: find_objc_selectors of scripts/objc_sel.py and its cache.         *)
(***************************************************************************)
\* Selector names "ma", "mb", ...; Foo has MaxMembers instance methods and
\* no class method.
InstanceMethods(class_name) ==
    IF class_name = Foo
    THEN [i \in 1..MaxMembers |-> [name |-> <<109, 96 + i>>, imp |-> i]]
    ELSE <<>>

ClassMethods(class_name) == <<>>

SelPatterns == {None, <<97>>}

\* matches_pattern of objc_sel.py: wildcards as in objc_cls.py, otherwise a
\* case-insensitive substring test.
sel_matches_pattern(selector_name, pattern) ==
    IF pattern = None THEN TRUE
    ELSE IF has_wildcards(pattern) THEN regex_match(pattern, selector_name)
    ELSE is_substring(pattern, selector_name)

SelFilter(methods, pattern) ==
    SelectSeq(methods, LAMBDA m : sel_matches_pattern(m.name, pattern))

MethodFaults(methods) ==
    InfoFaults(Len(methods), SEL_BATCH_SIZE, {"alloc", "list", "count", "array"})

\* What the method enumeration does for each method list under each set of
\* faults.
MethodTable ==
    [methods \in {InstanceMethods(c) : c \in SelClasses}
                    \cup {ClassMethods(c) : c \in SelClasses} |->
        [F \in MethodFaults(methods) |->
            InfoEnumerate("methods", methods, SEL_BATCH_SIZE, F)]]

get_methods_optimized(methods, F) == MethodTable[methods][F]

\* The trouble of an osel command: in the class lookup, in the metaclass
\* lookup, or in one of the two method enumerations.
SelEnvs(class_name, instance_only, class_only, kinds) ==
    {[top |-> t, inst |-> NoFaults, cls |-> NoFaults] :
        t \in {"ok"} \cup (kinds \cap ({"class"} \cup (IF instance_only THEN {}
                                                        ELSE {"meta"})))}
    \cup {[top |-> "ok", inst |-> F, cls |-> NoFaults] :
            F \in IF class_only THEN {}
                  ELSE Within(MethodFaults(InstanceMethods(class_name)), kinds)}
    \cup {[top |-> "ok", inst |-> NoFaults, cls |-> F] :
            F \in IF instance_only THEN {}
                  ELSE Within(MethodFaults(ClassMethods(class_name)), kinds)}

SelStore_dropped(all_instance_methods, all_class_methods) ==
    NoSelEntry

\* "_selector_cache[pid][class_name] = {'instance': ..., 'class': ...}".
SelStore(all_instance_methods, all_class_methods) ==
    [present |-> TRUE, instance |-> all_instance_methods, class |-> all_class_methods]

\* The part of find_objc_selectors after the cache clearing: entry is the
\* cache entry of the class.
enumerate_methods(entry, pid, class_name, pattern, force_reload, instance_only, class_only, env) ==
    IF ~force_reload /\ entry.present
    THEN [path |-> "hit", from_cache |-> TRUE, entry |-> entry,
          instance |-> SelFilter(entry.instance, pattern),
          class |-> SelFilter(entry.class, pattern),
          allocs |-> {}, frees |-> {}, evals |-> 0, reads |-> 0]
    ELSE IF env.top = "class" \/ ~ClassExists(pid, class_name)
    THEN [path |-> "error", from_cache |-> FALSE, entry |-> entry,
          instance |-> <<>>, class |-> <<>>,
          allocs |-> {}, frees |-> {}, evals |-> 1, reads |-> 0]
    ELSE LET i == IF class_only THEN NoRemote
                  ELSE get_methods_optimized(InstanceMethods(class_name), env.inst)
             c == IF instance_only \/ env.top = "meta" THEN NoRemote
                  ELSE get_methods_optimized(ClassMethods(class_name), env.cls)
         IN  [path |-> "miss", from_cache |-> FALSE,
              entry |-> SelStore(i.names, c.names),
              instance |-> SelFilter(i.names, pattern),
              class |-> SelFilter(c.names, pattern),
              allocs |-> i.allocs \cup c.allocs, frees |-> i.frees \cup c.frees,
              evals |-> 1 + i.evals + (IF instance_only THEN 0 ELSE 1) + c.evals,
              reads |-> i.reads + c.reads]

\* osel [ClassName] [pattern] [--clear-cache] [--reload] [--instance|--class].
\* With no class name, --clear-cache drops every entry of the process and
\* anything else is a usage error.
osel(pid, class_name, pattern, clear_cache, force_reload, only, target) ==
    LET entry == IF clear_cache \/ class_name = None THEN NoSelEntry
                 ELSE _selector_cache[pid][class_name]
        hit == ~force_reload /\ entry.present
    IN  IF class_name = None
        THEN /\ _selector_cache' =
                    IF clear_cache
                    THEN [_selector_cache EXCEPT ![pid] = [c \in SelClasses |-> NoSelEntry]]
                    ELSE _selector_cache
             /\ last' = [Idle EXCEPT !.op = "osel", !.pid = pid, !.cleared = clear_cache,
                                     !.path = IF clear_cache THEN "clear" ELSE "usage"]
             /\ history' = [history EXCEPT
                               ![pid].methods = IF clear_cache THEN {} ELSE @]
             /\ UNCHANGED <<breakpoints, watch_vars, _class_cache, legacy_class_cache, remote_heap>>
        ELSE IF clear_cache /\ pattern = None /\ ~force_reload
        THEN /\ _selector_cache' = [_selector_cache EXCEPT ![pid][class_name] = NoSelEntry]
             /\ last' = [Idle EXCEPT !.op = "osel", !.pid = pid, !.cleared = TRUE,
                                     !.path = "clear", !.class_name = class_name]
             /\ history' = [history EXCEPT ![pid].methods = @ \ {class_name}]
             /\ UNCHANGED <<breakpoints, watch_vars, _class_cache, legacy_class_cache, remote_heap>>
        ELSE \E env \in (IF hit THEN {[top |-> "ok", inst |-> NoFaults, cls |-> NoFaults]}
                         ELSE SelEnvs(class_name, only = "instance", only = "class",
                                      target.members)) :
             \E r \in {enumerate_methods(entry, pid, class_name, pattern, force_reload,
                                         only = "instance", only = "class", env)} :
                /\ _selector_cache' = [_selector_cache EXCEPT ![pid][class_name] = r.entry]
                /\ remote_heap' = [remote_heap EXCEPT ![pid] = @ \cup (r.allocs \ r.frees)]
                /\ last' = [Idle EXCEPT
                               !.op = "osel", !.pid = pid, !.pattern = pattern,
                               !.force_reload = force_reload, !.cleared = clear_cache,
                               !.path = r.path, !.class_name = class_name,
                               !.names = r.instance, !.members = r.class,
                               !.from_cache = r.from_cache, !.evals = r.evals,
                               !.reads = r.reads, !.env = env.inst, !.menv = env.cls,
                               !.show = only, !.top = env.top,
                               !.error = IF r.path # "error" THEN "none"
                                         ELSE IF env.top = "class" THEN "class_failed"
                                         ELSE "class_not_found"]
                /\ history' = [history EXCEPT
                                  ![pid].methods =
                                      IF r.path = "miss" THEN @ \cup {class_name}
                                      ELSE IF clear_cache THEN @ \ {class_name}
                                      ELSE @]
                /\ UNCHANGED <<breakpoints, watch_vars, _class_cache, legacy_class_cache>>

SelCommands(target) ==
    \E pid \in Pids, class_name \in SelClasses \cup {None}, pattern \in SelPatterns,
       clear_cache \in BOOLEAN, force_reload \in BOOLEAN,
       only \in {"both", "instance", "class"} :
        osel(pid, class_name, pattern, clear_cache, force_reload, only, target)

\* osel without selector pattern and without --instance or --class.
SelQueries(target) ==
    \E pid \in Pids, class_name \in SelClasses \cup {None},
       clear_cache \in BOOLEAN, force_reload \in BOOLEAN :
        osel(pid, class_name, None, clear_cache, force_reload, "both", target)

NextSel == SelCommands(Troubled)

SpecSel == Init /\ [][NextSel]_vars

(***************************************************************************)
(* oprotos: find_objc_protocol_conformance of scripts/objc_protos.py.      *)
(***************************************************************************)
PROTO_BATCH_SIZE == 50

\* Protocol names "Pb", "Pa", ... in the order the runtime lists them.
ProtocolList == [i \in 1..MaxMembers |-> <<80, 99 - i>>]

Pa == <<80, 97>>
ProtoStar == <<80, STAR>>
Absent == <<90>>

ProtoPatterns == {None, ProtoStar, Pa, Absent}

\* Foo and its subclass FooBar conform to Pa, FooBar through Foo; Baz
\* conforms to Pa and its superclass Qux does not.
class_getSuperclass(class_name) ==
    IF class_name = FooBar THEN Foo
    ELSE IF class_name = Baz THEN Qux
    ELSE None

class_conformsToProtocol(class_name, protocol_name) ==
    class_name \in {Foo, FooBar, Baz} /\ protocol_name = Pa

\* _matches_pattern: wildcards as in objc_cls.py, otherwise equality.
_matches_pattern(name, pattern) ==
    IF pattern = None THEN TRUE
    ELSE IF has_wildcards(pattern) THEN regex_match(pattern, name)
    ELSE name = pattern

\* Python's order on strings.
RECURSIVE str_less(_, _)
str_less(a, b) ==
    IF a = <<>> THEN b # <<>>
    ELSE IF b = <<>> THEN FALSE
    ELSE IF Head(a) # Head(b) THEN Head(a) < Head(b)
    ELSE str_less(Tail(a), Tail(b))

sorted(names) == SortSeq(names, str_less)

ProtocolFaults ==
    InfoFaults(Len(ProtocolList), PROTO_BATCH_SIZE, {"alloc", "list", "count", "array"})

\* The names are filtered while they are collected and sorted at the end.
ProtocolTable ==
    [F \in ProtocolFaults |->
        InfoEnumerate("protocols", ProtocolList, PROTO_BATCH_SIZE, F)]

get_all_protocols(pattern, F) ==
    LET r == ProtocolTable[F]
    IN  [r EXCEPT !.names = sorted(SelectSeq(@, LAMBDA p : _matches_pattern(p, pattern)))]

\* objc_getProtocol: 0 when the expression fails or the protocol is absent.
get_protocol_pointer(protocol_name, failed) ==
    IF failed \/ \A i \in 1..Len(ProtocolList) : ProtocolList[i] # protocol_name
    THEN 0
    ELSE CHOOSE i \in 1..Len(ProtocolList) : ProtocolList[i] = protocol_name

\* The number of classes of the process that conform to the protocol.
ConformingCount(pid, protocol_name) ==
    Cardinality({i \in 1..Len(ClassList(pid)) :
                    class_conformsToProtocol(class_getName(ClassList(pid)[i]), protocol_name)})

\* The marking calls that may fail: get_class_superclass ("super") or
\* check_class_conforms_to_protocol ("conf") for the i-th conforming class.
MarkFaults(n) ==
    {NoFaults} \cup {{Fault(kd, i)} : kd \in {"super", "conf"}, i \in 1..n}

is_direct_unless_subclass(class_name, protocol_name, super_failed, conforms_failed) ==
    class_getSuperclass(class_name) = None

\* "a class is direct if it has no superclass or its superclass does not
\* conform": get_class_superclass returns 0 and
\* check_class_conforms_to_protocol False when their expression fails.
is_direct(class_name, protocol_name, super_failed, conforms_failed) ==
    LET super_ptr == IF super_failed THEN None ELSE class_getSuperclass(class_name)
    IN  \/ super_ptr = None
        \/ ~(~conforms_failed /\ class_conformsToProtocol(super_ptr, protocol_name))

\* batch_size of the pointer batches and the conformance batches.
CONFORM_BATCH_SIZE == 50

\* The batch of position i (1-based), batches counted from 1.
batch_of(i) == (i - 1) \div CONFORM_BATCH_SIZE + 1

\* The batch calls that may fail: the expression or the ReadMemory of the
\* k-th class-pointer batch ("ptrs") or conformance batch ("check").
ScanFaults(n) ==
    {{Fault(kd, k)} : kd \in {"ptrs", "check"}, k \in 1..NumBatches(n, CONFORM_BATCH_SIZE)}

\* The classes of a batch enter class_ptr_map, and then the conformance
\* test, only when the batch expression and its ReadMemory succeed.
batch_kept(kind, i, G) == Fault(kind, batch_of(i)) \notin G

\* The class list comes from get_all_classes(frame, pattern=None,
\* force_reload=force_reload), whose four values are unpacked: its bare []
\* makes the unpacking raise.  The blocks of the pointer and conformance
\* batches are freed in the iteration that allocated them.
\* The result is a list of (class_name, is_direct) pairs: names and marks.
conformance_scan(c, protocol_name, direct_only, G) ==
    IF c.shape = "list"
    THEN [path |-> c.path, crashed |-> TRUE, names |-> <<>>, marks |-> <<>>,
          scanned |-> 0, classes |-> c]
    ELSE LET with_ptrs == SelectSeq([i \in 1..Len(c.names) |-> i],
                                    LAMBDA i : batch_kept("ptrs", i, G))
             checked == SelectSeq([k \in 1..Len(with_ptrs) |-> k],
                                  LAMBDA k : batch_kept("check", k, G))
             class_names_with_ptrs == [k \in 1..Len(checked) |-> c.names[with_ptrs[checked[k]]]]
             conforming == SelectSeq(class_names_with_ptrs,
                               LAMBDA n : class_conformsToProtocol(n, protocol_name))
             direct == [i \in 1..Len(conforming) |->
                           is_direct(conforming[i], protocol_name,
                                     Fault("super", i) \in G, Fault("conf", i) \in G)]
             kept == SelectSeq([i \in 1..Len(conforming) |-> i],
                               LAMBDA i : ~direct_only \/ direct[i])
         IN  [path |-> c.path, crashed |-> FALSE,
              names |-> [k \in 1..Len(kept) |-> conforming[kept[k]]],
              marks |-> [k \in 1..Len(kept) |-> direct[kept[k]]],
              scanned |-> c.count, classes |-> c]

find_conforming_classes(entry, pid, protocol_name, direct_only, force_reload, batch_size, F, failed, G) ==
    IF get_protocol_pointer(protocol_name, failed) = 0
    THEN [path |-> "notfound", crashed |-> FALSE, names |-> <<>>, marks |-> <<>>,
          scanned |-> 0,
          classes |-> Result("tuple", "none", <<>>, 0, FALSE, FALSE, entry, NoRemote)]
    ELSE conformance_scan(get_all_classes(entry, pid, None, force_reload, batch_size, F),
                          protocol_name, direct_only, G)

\* oprotos --list [pattern], and oprotos with a wildcard pattern.
list_protocols(pid, pattern, list_mode, target) ==
    \E F \in Within(ProtocolFaults, target.members) :
    \E r \in {get_all_protocols(pattern, F)} :
        /\ remote_heap' = [remote_heap EXCEPT ![pid] = @ \cup (r.allocs \ r.frees)]
        /\ last' = [Idle EXCEPT !.op = "oprotos", !.pid = pid, !.pattern = pattern,
                                !.path = "list", !.names = r.names, !.env = F,
                                !.evals = r.evals, !.reads = r.reads,
                                !.show = IF list_mode THEN "list" ELSE "wild"]
        /\ UNCHANGED <<breakpoints, watch_vars, _class_cache, legacy_class_cache, _selector_cache, history>>

\* oprotos <protocol> [--direct] [--reload].
conforming_classes(pid, protocol_name, direct_only, force_reload, target) ==
    LET entry == _class_cache[pid]
        show == IF direct_only THEN "direct" ELSE "all"
        failures == {FALSE} \cup {f \in {TRUE} : "proto" \in target.members}
    IN  \E first \in failures :
        IF get_protocol_pointer(protocol_name, first) = 0
        THEN /\ last' = [Idle EXCEPT !.op = "oprotos", !.pid = pid, !.evals = 1,
                                     !.pattern = protocol_name, !.path = "notfound",
                                     !.force_reload = force_reload, !.show = show,
                                     !.top = IF first THEN "proto" ELSE "ok"]
             /\ UNCHANGED <<breakpoints, watch_vars, _class_cache, legacy_class_cache, _selector_cache,
                            remote_heap, history>>
        ELSE \E second \in failures :
             \E batch_size \in (IF second THEN {DEFAULT_BATCH_SIZE}
                                ELSE CallBatchSizes(entry, None, force_reload)
                                        \cap target.sizes) :
             \E F \in (IF second THEN {NoFaults}
                       ELSE Within(CallFaults(entry, pid, None, force_reload, batch_size),
                                   target.classes)) :
             \E G \in (IF second \/ F # NoFaults THEN {NoFaults}
                       ELSE Within(MarkFaults(ConformingCount(pid, protocol_name))
                                       \cup ScanFaults(Len(ClassList(pid))),
                                   target.members)) :
             \E r \in {find_conforming_classes(entry, pid, protocol_name, direct_only,
                                               force_reload, batch_size, F, second, G)} :
                /\ _class_cache' = [_class_cache EXCEPT ![pid] = r.classes.entry]
                /\ history' = [history EXCEPT
                                  ![pid] = HistoryAfter(@, None, force_reload, r.classes,
                                                        Resolved(pid, batch_size, F))]
                /\ remote_heap' = [remote_heap EXCEPT
                                      ![pid] = @ \cup (r.classes.allocs \ r.classes.frees)]
                /\ last' = [Idle EXCEPT
                               !.op = "oprotos", !.pid = pid, !.pattern = protocol_name,
                               !.force_reload = force_reload, !.show = show,
                               !.path = r.path, !.crashed = r.crashed,
                               !.names = r.names, !.members = r.marks,
                               !.menv = G, !.count = r.scanned,
                               !.from_cache = r.classes.from_cache,
                               !.evals = 2 + r.classes.evals, !.reads = r.classes.reads,
                               !.batch_size = batch_size, !.env = F,
                               !.top = IF second THEN "proto" ELSE "ok"]
                /\ UNCHANGED <<breakpoints, watch_vars, legacy_class_cache, _selector_cache>>

oprotos(pid, list_mode, pattern, direct_only, force_reload, target) ==
    IF list_mode THEN list_protocols(pid, pattern, TRUE, target)
    ELSE IF pattern = None
    THEN /\ last' = [Idle EXCEPT !.op = "oprotos", !.pid = pid, !.path = "usage"]
         /\ UNCHANGED <<breakpoints, watch_vars, _class_cache, legacy_class_cache, _selector_cache,
                        remote_heap, history>>
    ELSE IF has_wildcards(pattern) THEN list_protocols(pid, pattern, FALSE, target)
    ELSE conforming_classes(pid, pattern, direct_only, force_reload, target)

ProtoCommands(target) ==
    \E pid \in Pids, list_mode \in BOOLEAN, pattern \in ProtoPatterns,
       direct_only \in BOOLEAN, force_reload \in BOOLEAN :
        oprotos(pid, list_mode, pattern, direct_only, force_reload, target)

\* oprotos without --direct.
ProtoQueries(target) ==
    \E pid \in Pids, list_mode \in BOOLEAN, pattern \in ProtoPatterns,
       force_reload \in BOOLEAN :
        oprotos(pid, list_mode, pattern, FALSE, force_reload, target)

(***************************************************************************)
(* The commands of one debugging session together.                         *)
(***************************************************************************)
\* A target whose only trouble is a class count that cannot be read, at the
\* batch size the commands use.
Steady == [classes |-> {"count"}, members |-> {"count"}, sizes |-> {DEFAULT_BATCH_SIZE}]

NextSession ==
    \/ ClassCommands(Steady)
    \/ MemberCommands(Steady)
    \/ SelQueries(Steady)
    \/ ProtoQueries(Steady)

SpecSession == Init /\ [][NextSession]_vars

\* Method, ivar and property queries against a target whose class
\* enumeration is untroubled.
MemberTrouble == [classes |-> {}, members |-> AnyKind, sizes |-> {DEFAULT_BATCH_SIZE}]

\* ocls --ivars ClassName and ocls --properties ClassName.
MemberQueries(target) ==
    \E pid \in Pids, class_name \in {Foo, LongName}, show \in {"ivars", "properties"} :
        ocls(pid, FALSE, FALSE, class_name, show, target)

NextScratch == MemberQueries(MemberTrouble) \/ SelCommands(MemberTrouble)

SpecScratch == Init /\ [][NextScratch]_vars

\* Class, method and protocol enumerations against a target where batch
\* expressions fail.
ExprTrouble == [classes |-> {"expr"}, members |-> {"expr"}, sizes |-> BatchSizes]

NextFallback ==
    \/ ClassCommands(ExprTrouble)
    \/ SelQueries(ExprTrouble)
    \/ ProtoQueries(ExprTrouble)

SpecFallback == Init /\ [][NextFallback]_vars

(***************************************************************************)
(* The consolidated buffer on its own: a batch of pointers (0 for an       *)
(* absent item) is written by the batch expression and parsed back.        *)
(***************************************************************************)
MaxBatch == 3

Batches ==
    UNION {[1..n -> 0..Len(NameTable)] : n \in 0..MaxBatch}

InitBuffer ==
    /\ _class_cache = [pid \in {1} |-> NoEntry]
    /\ legacy_class_cache = [pid \in {1} |-> NoEntry]
    /\ _selector_cache = [pid \in {1} |-> [c \in SelClasses |-> NoSelEntry]]
    /\ remote_heap = [pid \in {1} |-> {}]
    /\ history = [pid \in {1} |-> FreshHistory]
    /\ breakpoints = [pid \in {1} |-> {}]
    /\ InitWatches({1})
    /\ \E batch \in Batches : last = [Idle EXCEPT !.op = "batch", !.members = batch]

\* build_batch_expression evaluated in the target, then
\* read_consolidated_string_buffer on its block.
DecodeBuffer ==
    /\ last.op = "batch"
    /\ last' = [last EXCEPT !.op = "buffer", !.names = DecodeBatch(last.members),
                            !.batch_size = Len(last.members)]
    /\ UNCHANGED <<breakpoints, watch_vars, _class_cache, legacy_class_cache, _selector_cache, remote_heap, history>>

NextBuffer == DecodeBuffer

SpecBuffer == InitBuffer /\ [][NextBuffer]_vars

(***************************************************************************)
(* Looking classes up by their exact name, in two processes with a         *)
(* different number of classes.                                            *)
(***************************************************************************)
\* "foo": no class has this name, Foo differs from it in case only.
foo == <<102, 111, 111>>

\* Names without wildcards: classes of the first process, the class of the
\* second, and names no process has.
ExactNames == {Foo, LongName, Baz, Qux, foo}

ExactTrouble ==
    [classes |-> {"exact1", "exact2", "expr"}, members |-> {}, sizes |-> {DEFAULT_BATCH_SIZE}]

\* ocls with a name without wildcards, or with no pattern at all.
ExactQueries(target) ==
    \E pid \in Pids, clear_cache \in BOOLEAN, force_reload \in BOOLEAN,
       pattern \in ExactNames \cup {None} :
        ocls(pid, clear_cache, force_reload, pattern, "none", target)

NextExact == ExactQueries(ExactTrouble)

SpecExact == InitFor({1, 2}) /\ [][NextExact]_vars

(***************************************************************************)
(* The method resolver: resolve_method_address of scripts/objc_utils.py    *)
(* (used by owatch) and of objc_utils.py (used by obrk), with              *)
(* extract_inherited_class of scripts/objc_core.py.                        *)
(***************************************************************************)
\* Character codes of the method symbols "-[Class(Category) selector]".
PLUS == 43
MINUS == 45
LBRACKET == 91
RBRACKET == 93
LPAREN == 40
RPAREN == 41
SPACE == 32
NEWLINE == 10

\* Selectors "hash", "len", "new", "key:" and "zap"; the category "Cat".
Hash == <<104, 97, 115, 104>>
Length == <<108, 101, 110>>
New == <<110, 101, 119>>
Key == <<107, 101, 121, 58>>
Zap == <<122, 97, 112>>
Cat == <<67, 97, 116>>

Selectors == {Hash, Length, New, Key, Zap}

\* The classes NSClassFromString knows: FooBar is a subclass of Foo.
RuntimeClasses == {Foo, FooBar}

\* The methods of the target: Foo implements -hash, +hash, +new and, in a
\* category, -key:; FooBar implements -len.  No class implements zap.
Methods ==
    << [cls |-> Foo, instance |-> TRUE, sel |-> Hash, category |-> None],
       [cls |-> Foo, instance |-> TRUE, sel |-> Key, category |-> Cat],
       [cls |-> FooBar, instance |-> TRUE, sel |-> Length, category |-> None],
       [cls |-> Foo, instance |-> FALSE, sel |-> New, category |-> None],
       [cls |-> Foo, instance |-> FALSE, sel |-> Hash, category |-> None] >>

\* The address of _objc_msgForward, and the address of each method.
_objc_msgForward == 1

ImpAddress(i) == _objc_msgForward + i

MethodAt(addr) == Methods[addr - _objc_msgForward]

superclass_of(class_name) == IF class_name = FooBar THEN Foo ELSE None

\* class_getMethodImplementation on the class (instance methods) or on its
\* metaclass (class methods): the method of the nearest class of the chain
\* that has one, the forwarding stub when none has.
RECURSIVE class_getMethodImplementation(_, _, _)
class_getMethodImplementation(class_name, selector, is_instance_method) ==
    IF class_name = None THEN _objc_msgForward
    ELSE LET own == {i \in 1..Len(Methods) :
                        /\ Methods[i].cls = class_name
                        /\ Methods[i].sel = selector
                        /\ Methods[i].instance = is_instance_method}
         IN  IF own # {} THEN ImpAddress(CHOOSE i \in own : TRUE)
             ELSE class_getMethodImplementation(superclass_of(class_name), selector,
                                                is_instance_method)

\* format_method_name, and the symbol the compiler gives a method.
format_method_name(class_name, selector, is_instance_method) ==
    <<IF is_instance_method THEN MINUS ELSE PLUS, LBRACKET>>
        \o class_name \o <<SPACE>> \o selector \o <<RBRACKET>>

MethodSymbol(m) ==
    <<IF m.instance THEN MINUS ELSE PLUS, LBRACKET>> \o m.cls
        \o (IF m.category = None THEN <<>> ELSE <<LPAREN>> \o m.category \o <<RPAREN>>)
        \o <<SPACE>> \o m.sel \o <<RBRACKET>>

\* "_objc_msgForward"
MsgForwardSymbol ==
    <<95, 111, 98, 106, 99, 95, 109, 115, 103, 70, 111, 114, 119, 97, 114, 100>>

\* "msgForward"
MsgForwardMarker == <<109, 115, 103, 70, 111, 114, 119, 97, 114, 100>>

\* addr.GetSymbol().GetName()
SymbolAt(addr) ==
    IF addr = _objc_msgForward THEN MsgForwardSymbol ELSE MethodSymbol(MethodAt(addr))

\* "sub in s" on Python strings.
contains(sub, s) ==
    \E k \in 0..(Len(s) - Len(sub)) : \A i \in 1..Len(sub) : s[k + i] = sub[i]

\* \w and \s of Python's re on ASCII text.
IsWord(c) == c \in (48..57) \cup (65..90) \cup (97..122) \cup {95}

IsSpace(c) == c \in (9..13) \cup {SPACE}

\* re.match(r'^[+-]\[(\w+)\s+(.+)\]$', symbol_name): the class is the longest
\* run of word characters after the bracket, the blanks after it are as
\* many as leave a selector of at least one character, none a newline,
\* before the closing bracket that ends the text.
match_method_symbol(symbol_name) ==
    LET n == Len(symbol_name)
        word_end == CHOOSE k \in 2..n :
                        /\ \A i \in 3..k : IsWord(symbol_name[i])
                        /\ (k = n \/ ~IsWord(symbol_name[k + 1]))
        space_end == CHOOSE e \in word_end..n :
                        /\ \A i \in (word_end + 1)..e : IsSpace(symbol_name[i])
                        /\ (e = n \/ ~IsSpace(symbol_name[e + 1]))
        blanks == {j \in 1..(space_end - word_end) :
                      /\ word_end + j + 1 <= n - 1
                      /\ \A i \in (word_end + j + 1)..(n - 1) : symbol_name[i] # NEWLINE}
        j == CHOOSE b \in blanks : \A c \in blanks : c <= b
    IN  IF /\ n >= 2
           /\ symbol_name[1] \in {PLUS, MINUS}
           /\ symbol_name[2] = LBRACKET
           /\ symbol_name[n] = RBRACKET
           /\ word_end >= 3
           /\ blanks # {}
        THEN [matched |-> TRUE,
              class |-> SubSeq(symbol_name, 3, word_end),
              selector |-> SubSeq(symbol_name, word_end + j + 1, n - 1)]
        ELSE [matched |-> FALSE, class |-> None, selector |-> None]

extract_inherited_class(symbol_name, requested_class, selector, is_instance_method) ==
    LET match == match_method_symbol(symbol_name)
    IN  IF match.matched /\ match.class # requested_class /\ match.selector = selector
        THEN match.class
        ELSE None

\* What may go wrong in one resolution: an expression that fails ("class",
\* "sel", "meta", "imp"), a null selector or implementation ("nosel",
\* "noimp"), an implementation address outside every loaded image ("addr")
\* or without a symbol ("nosym").  The forwarding stub is an exported
\* function of the runtime library: its address and its symbol resolve.
ResolveKinds == {"class", "sel", "nosel", "meta", "imp", "noimp", "addr", "nosym"}

ResolveEnvs == {"ok"} \cup ResolveKinds

StepsBefore(is_instance_method) ==
    IF is_instance_method THEN <<"class", "selector">>
    ELSE <<"class", "selector", "metaclass">>

Unresolved(steps, error) ==
    [addr |-> 0, error |-> error, steps |-> steps, symbol |-> None, inherited_from |-> None]

lookup_implementation_lenient(class_name, selector, is_instance_method, env) ==
    IF env = "class" THEN Unresolved(<<"class">>, "class_failed")
    ELSE IF class_name \notin RuntimeClasses THEN Unresolved(<<"class">>, "class_not_found")
    ELSE IF env = "sel" THEN Unresolved(<<"class", "selector">>, "selector_failed")
    ELSE IF env = "imp"
    THEN Unresolved(StepsBefore(is_instance_method) \o <<"imp">>, "imp_failed")
    ELSE IF env = "noimp"
    THEN Unresolved(StepsBefore(is_instance_method) \o <<"imp">>, "imp_not_found")
    ELSE [addr |-> class_getMethodImplementation(class_name, selector, is_instance_method),
          error |-> "none", steps |-> StepsBefore(is_instance_method) \o <<"imp">>,
          symbol |-> None, inherited_from |-> None]

\* The steps resolve_method_address has in common in its two versions, up
\* to the implementation address; imp is 0 when a step ended the resolution.
lookup_implementation(class_name, selector, is_instance_method, env) ==
    IF env = "class" THEN Unresolved(<<"class">>, "class_failed")
    ELSE IF class_name \notin RuntimeClasses THEN Unresolved(<<"class">>, "class_not_found")
    ELSE IF env = "sel" THEN Unresolved(<<"class", "selector">>, "selector_failed")
    ELSE IF env = "nosel" THEN Unresolved(<<"class", "selector">>, "selector_not_found")
    ELSE IF ~is_instance_method /\ env = "meta"
    THEN Unresolved(StepsBefore(FALSE), "metaclass_failed")
    ELSE IF env = "imp"
    THEN Unresolved(StepsBefore(is_instance_method) \o <<"imp">>, "imp_failed")
    ELSE IF env = "noimp"
    THEN Unresolved(StepsBefore(is_instance_method) \o <<"imp">>, "imp_not_found")
    ELSE [addr |-> class_getMethodImplementation(class_name, selector, is_instance_method),
          error |-> "none", steps |-> StepsBefore(is_instance_method) \o <<"imp">>,
          symbol |-> None, inherited_from |-> None]

\* Step 5 once the address is resolved: the forwarding check and the
\* inheritance annotation, when the address has a symbol.
classify_unchecked(r, class_name, selector, is_instance_method, env) ==
    LET known == r.addr = _objc_msgForward \/ env # "nosym"
    IN  [r EXCEPT !.steps = @ \o <<"symbol">>,
                  !.symbol = IF known THEN SymbolAt(r.addr) ELSE None,
                  !.inherited_from =
                      IF known
                      THEN extract_inherited_class(SymbolAt(r.addr), class_name, selector,
                                                   is_instance_method)
                      ELSE None]

classify(r, class_name, selector, is_instance_method, env) ==
    LET known == r.addr = _objc_msgForward \/ env # "nosym"
    IN  IF known /\ contains(MsgForwardMarker, SymbolAt(r.addr))
        THEN [Unresolved(r.steps \o <<"symbol">>, "forwarding")
              EXCEPT !.symbol = SymbolAt(r.addr)]
        ELSE [r EXCEPT !.steps = @ \o <<"symbol">>,
                       !.symbol = IF known THEN SymbolAt(r.addr) ELSE None,
                       !.inherited_from =
                           IF known
                           THEN extract_inherited_class(SymbolAt(r.addr), class_name,
                                                        selector, is_instance_method)
                           ELSE None]

\* scripts/objc_utils.py: an address that does not resolve is an error.
resolve_method_address(class_name, selector, is_instance_method, env) ==
    LET r == lookup_implementation(class_name, selector, is_instance_method, env)
    IN  IF r.error # "none" THEN r
        ELSE IF env = "addr" /\ r.addr # _objc_msgForward
        THEN Unresolved(r.steps \o <<"symbol">>, "address_failed")
        ELSE classify(r, class_name, selector, is_instance_method, env)

\* objc_utils.py: an address that does not resolve is returned unclassified.
legacy_resolve_method_address(class_name, selector, is_instance_method, env) ==
    LET r == lookup_implementation(class_name, selector, is_instance_method, env)
    IN  IF r.error # "none" THEN r
        ELSE IF env = "addr" /\ r.addr # _objc_msgForward
        THEN [r EXCEPT !.steps = @ \o <<"symbol">>]
        ELSE classify(r, class_name, selector, is_instance_method, env)

\* One probe of detect_method_type, class_getClassMethod or
\* class_getInstanceMethod inside one expression: the method is found when
\* the expression evaluates and its value is not 0.
probe(class_name, selector, is_instance_method, failed) ==
    /\ ~failed
    /\ class_name \in RuntimeClasses
    /\ class_getMethodImplementation(class_name, selector, is_instance_method)
           # _objc_msgForward

detect_instance_first(class_name, selector, probes) ==
    IF probe(class_name, selector, TRUE, "instance" \in probes) THEN "InstanceMethod"
    ELSE IF probe(class_name, selector, FALSE, "class" \in probes) THEN "ClassMethod"
    ELSE "UnknownDefaultsToInstance"

\* detect_method_type: the class-method probe, then the instance-method
\* probe, then the default; probes names the probes whose expression
\* fails.  The function returns False for "ClassMethod" and True for the
\* other two, which differ in the line it prints.
detect_method_type(class_name, selector, probes) ==
    IF probe(class_name, selector, FALSE, "class" \in probes) THEN "ClassMethod"
    ELSE IF probe(class_name, selector, TRUE, "instance" \in probes) THEN "InstanceMethod"
    ELSE "UnknownDefaultsToInstance"

ProbeFaults == SUBSET {"class", "instance"}

\* The methods asked for: every selector on the subclass, one on the root
\* class and one on a class the process does not have.
Requests ==
    {[class_name |-> FooBar, selector |-> s] : s \in Selectors}
    \cup {[class_name |-> Foo, selector |-> Hash], [class_name |-> Qux, selector |-> Hash]}

\* What the two resolvers and the detection of the method type return for
\* each request.
ResolveTable ==
    [m \in Requests |->
        [is_instance_method \in BOOLEAN |->
            [env \in ResolveEnvs |->
                [scripts |-> resolve_method_address(m.class_name, m.selector,
                                                    is_instance_method, env),
                 legacy |-> legacy_resolve_method_address(m.class_name, m.selector,
                                                          is_instance_method, env)]]]]

DetectTable ==
    [m \in Requests |->
        [probes \in ProbeFaults |-> detect_method_type(m.class_name, m.selector, probes)]]

\* What a resolving command leaves in last and in the breakpoint list.
Resolving(op, pid, class_name, selector, kind, env, r, detected) ==
    /\ breakpoints' = [breakpoints EXCEPT
                          ![pid] = IF r.error = "none" THEN @ \cup {r.addr} ELSE @]
    /\ last' = [Idle EXCEPT !.op = op, !.pid = pid, !.class_name = class_name,
                            !.selector = selector, !.show = kind, !.top = env,
                            !.path = detected.outcome, !.menv = detected.probes,
                            !.steps = r.steps, !.error = r.error, !.addr = r.addr,
                            !.symbol = r.symbol, !.inherited_from = r.inherited_from]
    /\ UNCHANGED <<_class_cache, legacy_class_cache, _selector_cache, remote_heap, history, watch_vars>>

\* What a command records of the detection: nothing when the command
\* line gave the method type.
NotDetected == [outcome |-> "none", probes |-> {}]

\* obrk -[Class selector], +[Class selector] or [Class selector].
obrk(pid, class_name, selector, kind, env, probes) ==
    LET m == [class_name |-> class_name, selector |-> selector]
        outcome == IF kind = "auto" THEN DetectTable[m][probes] ELSE "none"
        is_instance_method == IF kind = "auto" THEN outcome # "ClassMethod"
                              ELSE kind = "instance"
    IN  \E r \in {ResolveTable[m][is_instance_method][env].legacy} :
            Resolving("obrk", pid, class_name, selector,
                      IF is_instance_method THEN "instance" ELSE "class", env, r,
                      IF kind = "auto" THEN [outcome |-> outcome, probes |-> probes]
                      ELSE NotDetected)

\* owatch -[Class selector] or +[Class selector] from the method signature
\* to the address its breakpoint is asked for; the bare form leaves the
\* method type None, which the resolver takes as a class method.  The
\* flags, the breakpoint ids and the watch table of the command are
\* followed by watch_objc_method.
owatch(pid, class_name, selector, kind, env) ==
    \E r \in {ResolveTable[[class_name |-> class_name, selector |-> selector]]
                            [kind = "instance"][env].scripts} :
        Resolving("owatch", pid, class_name, selector,
                  IF kind = "instance" THEN "instance" ELSE "class", env, r, NotDetected)

BreakCommands ==
    \E pid \in Pids, m \in Requests, kind \in {"instance", "class", "auto"},
       env \in ResolveEnvs :
        obrk(pid, m.class_name, m.selector, kind, env, {})

WatchCommands ==
    \E pid \in Pids, m \in Requests, kind \in {"instance", "class", "bare"},
       env \in ResolveEnvs :
        owatch(pid, m.class_name, m.selector, kind, env)

NextResolve == BreakCommands \/ WatchCommands

SpecResolve == Init /\ [][NextResolve]_vars

(***************************************************************************)
(* get_class_hierarchy of objc_cls.py, on the superclass pointers the      *)
(* target presents: any map of class pointers to class pointers, 0 for     *)
(* nil, cycles included.                                                   *)
(***************************************************************************)
MaxChain == 3

max_depth == 20

\* class_getSuperclass of each of the pointers 1..MaxChain.
SuperclassData == [1..MaxChain -> 0..MaxChain]

\* One failing expression: class_getName or class_getSuperclass in a round
\* of the walk, or NSClassFromString (round 0).
HierarchyFaults ==
    {NoFaults, {Fault("class", 0)}}
    \cup {{Fault(kd, k)} : kd \in {"name", "super"}, k \in {1, 2, max_depth}}

\* The loop "for _ in range(max_depth)" from its round on.
RECURSIVE walk_superclasses(_, _, _, _, _, _)
walk_superclasses(superclass, current_class, round, hierarchy, evals, F) ==
    IF round > max_depth THEN [hierarchy |-> hierarchy, evals |-> evals]
    ELSE IF Fault("name", round) \in F THEN [hierarchy |-> hierarchy, evals |-> evals + 1]
    ELSE LET named == Append(hierarchy, class_getName(current_class))
         IN  IF Fault("super", round) \in F \/ superclass[current_class] = 0
             THEN [hierarchy |-> named, evals |-> evals + 2]
             ELSE walk_superclasses(superclass, superclass[current_class], round + 1,
                                    named, evals + 2, F)

get_class_hierarchy_one_more(superclass, class_ptr, F) ==
    IF Fault("class", 0) \in F \/ class_ptr = 0
    THEN [hierarchy |-> <<>>, evals |-> 1]
    ELSE walk_superclasses(superclass, class_ptr, 0, <<>>, 1, F)

\* get_class_hierarchy for the class at class_ptr (0 when NSClassFromString
\* finds no class of the name).
get_class_hierarchy(superclass, class_ptr, F) ==
    IF Fault("class", 0) \in F \/ class_ptr = 0
    THEN [hierarchy |-> <<>>, evals |-> 1]
    ELSE walk_superclasses(superclass, class_ptr, 1, <<>>, 1, F)

InitHierarchy ==
    /\ _class_cache = [pid \in {1} |-> NoEntry]
    /\ legacy_class_cache = [pid \in {1} |-> NoEntry]
    /\ _selector_cache = [pid \in {1} |-> [c \in SelClasses |-> NoSelEntry]]
    /\ remote_heap = [pid \in {1} |-> {}]
    /\ history = [pid \in {1} |-> FreshHistory]
    /\ breakpoints = [pid \in {1} |-> {}]
    /\ InitWatches({1})
    /\ \E superclass \in SuperclassData, class_ptr \in 0..MaxChain :
          last = [Idle EXCEPT !.op = "target", !.members = superclass, !.count = class_ptr]

\* The hierarchy of the class, as ocls shows it for a single match.
ShowHierarchy ==
    /\ last.op = "target"
    /\ \E F \in HierarchyFaults :
       \E r \in {get_class_hierarchy(last.members, last.count, F)} :
          last' = [last EXCEPT !.op = "hierarchy", !.names = r.hierarchy,
                               !.evals = r.evals, !.env = F]
    /\ UNCHANGED <<_class_cache, legacy_class_cache, _selector_cache, remote_heap, history,
                   breakpoints, watch_vars>>

NextHierarchy == ShowHierarchy

SpecHierarchy == InitHierarchy /\ [][NextHierarchy]_vars

(***************************************************************************)
(* Protocol conformance in a process with a conforming class hierarchy.    *)
(***************************************************************************)
\* A target whose class enumeration is untroubled and in which the protocol
\* lookup, a batch of the scan or one of the calls that mark a class as
\* direct may fail.
ConformTrouble ==
    [classes |-> {}, members |-> {"proto", "super", "conf", "ptrs", "check"},
     sizes |-> {DEFAULT_BATCH_SIZE}]

\* oprotos <protocol> [--direct] [--reload] for a protocol with conforming
\* classes, a protocol without, and a name that is no protocol.
ConformQueries(target) ==
    \E pid \in Pids, protocol_name \in {Pa, ProtocolList[1], Absent},
       direct_only \in BOOLEAN, force_reload \in BOOLEAN :
        oprotos(pid, FALSE, protocol_name, direct_only, force_reload, target)

NextConform == ConformQueries(ConformTrouble) \/ ClassCommands(ConformTrouble)

SpecConform == InitFor({3}) /\ [][NextConform]_vars

(***************************************************************************)
(* group_classes_by_inheritance of scripts/objc_protos.py, on any          *)
(* superclass-name map the target presents for the conforming classes.     *)
(***************************************************************************)
\* The classes that may conform, in class-list order.
GroupClasses == <<Foo, FooBar, Baz>>

\* superclass_map: the superclass name read for each conforming class, None
\* for a class without entry; Qux stands for a class that does not conform.
SuperclassMaps(conforming_set) == [conforming_set -> SeqSet(GroupClasses) \cup {Qux, None}]

find_root_immediate(superclass_map, conforming_set, root, visited, steps) ==
    [root |-> root, steps |-> steps]

\* The loop "while root in superclass_map and superclass_map[root] in
\* conforming_set" with its visited set.
RECURSIVE find_root(_, _, _, _, _)
find_root(superclass_map, conforming_set, root, visited, steps) ==
    IF superclass_map[root] # None /\ superclass_map[root] \in conforming_set
    THEN IF root \in visited THEN [root |-> root, steps |-> steps]
         ELSE find_root(superclass_map, conforming_set, superclass_map[root],
                        visited \cup {root}, steps + 1)
    ELSE [root |-> root, steps |-> steps]

\* The group a class is appended to, None for a root class.
group_of(superclass_map, conforming_set, class_name) ==
    LET super_name == superclass_map[class_name]
    IN  IF super_name # None /\ super_name \in conforming_set
        THEN find_root(superclass_map, conforming_set, super_name, {class_name}, 0)
        ELSE [root |-> None, steps |-> 0]

\* conforming_pairs is the list of (class_name, is_direct) pairs; the
\* result lists each root class with its sorted subclasses.
group_classes_by_inheritance(conforming_pairs, superclass_map) ==
    LET class_names == [i \in 1..Len(conforming_pairs) |-> conforming_pairs[i][1]]
        conforming_set == SeqSet(class_names)
        group == [c \in conforming_set |-> group_of(superclass_map, conforming_set, c)]
        root_classes == SelectSeq(class_names, LAMBDA c : group[c].root = None)
        direct_map == [c \in conforming_set |->
                          conforming_pairs[CHOOSE i \in 1..Len(class_names) :
                                                 class_names[i] = c][2]]
        roots == sorted(root_classes)
    IN  [result |-> [k \in 1..Len(roots) |->
                        [root |-> roots[k],
                         subclasses |-> sorted(SelectSeq(class_names,
                                           LAMBDA c : group[c].root = roots[k])),
                         is_direct |-> direct_map[roots[k]]]],
         steps |-> IF conforming_set = {} THEN 0
                   ELSE CHOOSE n \in {group[c].steps : c \in conforming_set} :
                            \A c \in conforming_set : group[c].steps <= n]

\* The conforming classes of a query, each marked direct when its
\* superclass is not among them, and a superclass map for them.
InitGroup ==
    /\ _class_cache = [pid \in {1} |-> NoEntry]
    /\ legacy_class_cache = [pid \in {1} |-> NoEntry]
    /\ _selector_cache = [pid \in {1} |-> [c \in SelClasses |-> NoSelEntry]]
    /\ remote_heap = [pid \in {1} |-> {}]
    /\ history = [pid \in {1} |-> FreshHistory]
    /\ breakpoints = [pid \in {1} |-> {}]
    /\ InitWatches({1})
    /\ \E conforming_set \in SUBSET SeqSet(GroupClasses) :
       \E superclass_map \in SuperclassMaps(conforming_set) :
          LET class_names == SelectSeq(GroupClasses, LAMBDA c : c \in conforming_set)
          IN  last = [Idle EXCEPT
                         !.op = "conforming",
                         !.members = [i \in 1..Len(class_names) |->
                                         <<class_names[i],
                                           superclass_map[class_names[i]]
                                               \notin conforming_set>>],
                         !.env = superclass_map]

\* The grouped display of oprotos.
GroupClassesByInheritance ==
    /\ last.op = "conforming"
    /\ \E r \in {group_classes_by_inheritance(last.members, last.env)} :
          last' = [last EXCEPT !.op = "grouped", !.names = r.result, !.evals = r.steps]
    /\ UNCHANGED <<_class_cache, legacy_class_cache, _selector_cache, remote_heap, history,
                   breakpoints, watch_vars>>

NextGroup == GroupClassesByInheritance

SpecGroup == InitGroup /\ [][NextGroup]_vars

(***************************************************************************)
(* The three pattern matchers applied to one pattern and a list of names:  *)
(* matches_pattern of objc_cls.py (classes), _matches_pattern of           *)
(* scripts/objc_protos.py (protocols) and matches_pattern of               *)
(* scripts/objc_sel.py (selectors).                                        *)
(***************************************************************************)
MaxName == 4
MaxPattern == 3

\* A, B and C.
NameChars == {65, 66, 67}

ABC == <<65, 66, 67>>
ABBC == <<65, 66, 66, 67>>
bar == <<98, 97, 114>>

\* Names in lower case and names with a full stop.
OtherNames ==
    {<<97, 98, 99>>, <<65, 98, 67>>, <<65, 66, 98>>, <<65, DOT, 98>>, <<65, DOT, 66>>,
     <<65, DOT, 67>>, <<DOT>>, <<DOT, DOT>>, <<65, DOT>>}

MatchNames ==
    UNION {[1..n -> NameChars] : n \in 0..MaxName} \cup OtherNames \cup {Foo, FooBar, Baz}

\* Patterns of A, C, the full stop, '*' and '?'.
MatchPatterns ==
    UNION {[1..n -> {65, 67, DOT, STAR, QMARK}] : n \in 1..MaxPattern}
        \cup {FooStar, Foo, FooBar, bar, ABC}

InitMatch ==
    /\ _class_cache = [pid \in {1} |-> NoEntry]
    /\ legacy_class_cache = [pid \in {1} |-> NoEntry]
    /\ _selector_cache = [pid \in {1} |-> [c \in SelClasses |-> NoSelEntry]]
    /\ remote_heap = [pid \in {1} |-> {}]
    /\ history = [pid \in {1} |-> FreshHistory]
    /\ breakpoints = [pid \in {1} |-> {}]
    /\ InitWatches({1})
    /\ \E pattern \in MatchPatterns :
          last = [Idle EXCEPT !.op = "pattern", !.pattern = pattern]

\* The names a finder keeps: [name for name in names if matches(name, pattern)].
Matching(finder, pattern) ==
    {name \in MatchNames :
        IF finder = "class" THEN matches_pattern(name, pattern)
        ELSE IF finder = "protocol" THEN _matches_pattern(name, pattern)
        ELSE sel_matches_pattern(name, pattern)}

MatchAll ==
    /\ last.op = "pattern"
    /\ \E finder \in {"class", "protocol", "selector"} :
          last' = [last EXCEPT !.op = "matched", !.show = finder,
                               !.names = Matching(finder, last.pattern)]
    /\ UNCHANGED <<_class_cache, legacy_class_cache, _selector_cache, remote_heap, history,
                   breakpoints, watch_vars>>

NextMatch == MatchAll

SpecMatch == InitMatch /\ [][NextMatch]_vars

(***************************************************************************)
(* decode_type_encoding and parse_property_attributes of objc_cls.py, on   *)
(* strings of character codes.                                             *)
(***************************************************************************)
CARET == 94
LBRACE == 123
RBRACE == 125
EQUALS == 61
QUOTE == 34
AT == 64
COMMA == 44
LESS == 60
GREATER == 62

\* Python's s.startswith(prefix), s.find(sub, start) and s.rfind(sub), with
\* 0-based positions and -1 for no occurrence.
startswith(s, prefix) == Len(s) >= Len(prefix) /\ SubSeq(s, 1, Len(prefix)) = prefix

endswith(s, suffix) ==
    Len(s) >= Len(suffix) /\ SubSeq(s, Len(s) - Len(suffix) + 1, Len(s)) = suffix

Occurrences(s, sub, start) ==
    {k \in start..(Len(s) - Len(sub)) : SubSeq(s, k + 1, k + Len(sub)) = sub}

find(s, sub, start) ==
    LET hits == Occurrences(s, sub, start)
    IN  IF hits = {} THEN -1 ELSE CHOOSE k \in hits : \A m \in hits : k <= m

rfind(s, sub) ==
    LET hits == Occurrences(s, sub, 0)
    IN  IF hits = {} THEN -1 ELSE CHOOSE k \in hits : \A m \in hits : k >= m

isdigit(c) == c \in 48..57

\* ' '.join(words)
RECURSIVE join(_)
join(words) ==
    IF words = <<>> THEN <<>>
    ELSE IF Len(words) = 1 THEN words[1]
    ELSE words[1] \o <<SPACE>> \o join(Tail(words))

\* The words of the type qualifiers r, n, N, o, O, R, V.
qualifier_words ==
    (114 :> <<99, 111, 110, 115, 116>>)
    @@ (110 :> <<105, 110>>)
    @@ (78 :> <<105, 110, 111, 117, 116>>)
    @@ (111 :> <<111, 117, 116>>)
    @@ (79 :> <<98, 121, 99, 111, 112, 121>>)
    @@ (82 :> <<98, 121, 114, 101, 102>>)
    @@ (86 :> <<111, 110, 101, 119, 97, 121>>)

\* type_map: c char, i int, s short, l long, q long long, C unsigned char, I unsigned int, S unsigned short, L unsigned long, Q unsigned long long, f float, d double, B BOOL, v void, @? block, and the signs for char *, id, block, Class, SEL and ?.
type_map ==
    (<<99>> :> <<99, 104, 97, 114>>)
    @@ (<<105>> :> <<105, 110, 116>>)
    @@ (<<115>> :> <<115, 104, 111, 114, 116>>)
    @@ (<<108>> :> <<108, 111, 110, 103>>)
    @@ (<<113>> :> <<108, 111, 110, 103, 32, 108, 111, 110, 103>>)
    @@ (<<67>> :> <<117, 110, 115, 105, 103, 110, 101, 100, 32, 99, 104, 97, 114>>)
    @@ (<<73>> :> <<117, 110, 115, 105, 103, 110, 101, 100, 32, 105, 110, 116>>)
    @@ (<<83>> :> <<117, 110, 115, 105, 103, 110, 101, 100, 32, 115, 104, 111, 114, 116>>)
    @@ (<<76>> :> <<117, 110, 115, 105, 103, 110, 101, 100, 32, 108, 111, 110, 103>>)
    @@ (<<81>> :> <<117, 110, 115, 105, 103, 110, 101, 100, 32, 108, 111, 110, 103, 32, 108, 111, 110, 103>>)
    @@ (<<102>> :> <<102, 108, 111, 97, 116>>)
    @@ (<<100>> :> <<100, 111, 117, 98, 108, 101>>)
    @@ (<<66>> :> <<66, 79, 79, 76>>)
    @@ (<<118>> :> <<118, 111, 105, 100>>)
    @@ (<<42>> :> <<99, 104, 97, 114, 32, 42>>)
    @@ (<<64>> :> <<105, 100>>)
    @@ (<<64, 63>> :> <<98, 108, 111, 99, 107>>)
    @@ (<<35>> :> <<67, 108, 97, 115, 115>>)
    @@ (<<58>> :> <<83, 69, 76>>)
    @@ (<<63>> :> <<63>>)

\* The number of qualifier characters type_enc starts with.
RECURSIVE leading_qualifiers(_)
leading_qualifiers(type_enc) ==
    IF type_enc # <<>> /\ type_enc[1] \in DOMAIN qualifier_words
    THEN 1 + leading_qualifiers(Tail(type_enc))
    ELSE 0

\* if qualifiers: return f"{' '.join(qualifiers)} {result}"
qualified(qualifiers, result) ==
    IF qualifiers = <<>> THEN result ELSE join(qualifiers) \o <<SPACE>> \o result

\* The branch for @"ClassName" and @\"ClassName\".
decode_object(type_enc) ==
    LET escaped == startswith(type_enc, <<AT, BACKSLASH, QUOTE>>)
        start_idx == IF escaped THEN 3 ELSE 2
        first == find(type_enc, <<BACKSLASH, QUOTE>>, start_idx)
        second == find(type_enc, <<QUOTE>>, start_idx)
        last_quote == rfind(type_enc, <<QUOTE>>)
        end_idx == IF escaped
                   THEN (IF first # -1 THEN first
                         ELSE IF second # -1 THEN second ELSE Len(type_enc))
                   ELSE (IF last_quote <= start_idx THEN Len(type_enc) ELSE last_quote)
        class_name == PySlice(type_enc, start_idx, end_idx)
    IN  IF startswith(class_name, <<LESS>>) /\ endswith(class_name, <<GREATER>>)
        THEN <<105, 100, LESS>> \o PySlice(class_name, 1, Len(class_name) - 1)
                 \o <<GREATER>>
        ELSE class_name

\* inner[:count_end], the digits inner starts with.
RECURSIVE count_digits(_)
count_digits(inner) ==
    IF inner # <<>> /\ isdigit(inner[1]) THEN 1 + count_digits(Tail(inner)) ELSE 0

RECURSIVE decode_type_encoding(_)
decode_type_encoding(type_enc) ==
    IF type_enc = <<>> THEN <<QMARK>>
    ELSE
    LET n == leading_qualifiers(type_enc)
        qualifiers == [i \in 1..n |-> qualifier_words[type_enc[i]]]
        t == SubSeq(type_enc, n + 1, Len(type_enc))
        end_bracket == find(t, <<RBRACKET>>, 0)
        inner == PySlice(t, 1, end_bracket)
        count_end == count_digits(inner)
        end_equal == find(t, <<EQUALS>>, 0)
        end_brace == find(t, <<RBRACE>>, 0)
        num == PySlice(t, 1, Len(t))
    IN  IF startswith(t, <<AT, QUOTE>>) \/ startswith(t, <<AT, BACKSLASH, QUOTE>>)
        THEN qualified(qualifiers, decode_object(t))
        ELSE IF t \in DOMAIN type_map THEN qualified(qualifiers, type_map[t])
        ELSE IF startswith(t, <<CARET>>)
        THEN qualified(qualifiers, decode_type_encoding(Tail(t)) \o <<SPACE, STAR>>)
        ELSE IF startswith(t, <<LBRACKET>>) /\ end_bracket > 0 /\ count_end > 0
        THEN qualified(qualifiers,
                       decode_type_encoding(PySlice(inner, count_end, Len(inner)))
                           \o <<LBRACKET>> \o PySlice(inner, 0, count_end)
                           \o <<RBRACKET>>)
        ELSE IF startswith(t, <<LBRACE>>)
        THEN qualified(qualifiers,
                       IF end_equal > 0
                       THEN <<115, 116, 114, 117, 99, 116, SPACE>> \o PySlice(t, 1, end_equal)
                       ELSE IF end_brace > 0
                       THEN <<115, 116, 114, 117, 99, 116, SPACE>> \o PySlice(t, 1, end_brace)
                       ELSE t)
        ELSE IF startswith(t, <<LPAREN>>) /\ end_equal > 0
        THEN qualified(qualifiers, <<117, 110, 105, 111, 110, SPACE>> \o PySlice(t, 1, end_equal))
        ELSE IF startswith(t, <<98>>)
        THEN qualified(qualifiers,
                       num \o (IF num = <<49>> THEN <<SPACE, 98, 105, 116>>
                               ELSE <<SPACE, 98, 105, 116, 115>>))
        ELSE qualified(qualifiers, t)

MaxNest == 2

\* The array counts "2" and "10".
Counts == {<<50>>, <<49, 48>>}

\* "i", "d" and "{P=i}".
BaseEncodings == {<<105>>, <<100>>, <<LBRACE, 80, EQUALS, 105, RBRACE>>}

Pointer(T) == <<CARET>> \o T

Array(n, T) == <<LBRACKET>> \o n \o T \o <<RBRACKET>>

\* The element encodings nested up to depth d: a base type, a pointer to an
\* element, an array of elements.
RECURSIVE Encodings(_)
Encodings(d) ==
    IF d = 0 THEN BaseEncodings
    ELSE LET E == Encodings(d - 1)
         IN  E \cup {Pointer(T) : T \in E} \cup {Array(n, T) : n \in Counts, T \in E}

\* The bit field "b1" besides.
TypeEncodings == Encodings(MaxNest) \cup {<<98, 49>>}

InitDecode ==
    /\ _class_cache = [pid \in {1} |-> NoEntry]
    /\ legacy_class_cache = [pid \in {1} |-> NoEntry]
    /\ _selector_cache = [pid \in {1} |-> [c \in SelClasses |-> NoSelEntry]]
    /\ remote_heap = [pid \in {1} |-> {}]
    /\ history = [pid \in {1} |-> FreshHistory]
    /\ breakpoints = [pid \in {1} |-> {}]
    /\ InitWatches({1})
    /\ \E type_enc \in TypeEncodings :
          last = [Idle EXCEPT !.op = "encoding", !.pattern = type_enc]

\* An ivar's type is decoded, as it stands and as the element of a pointer
\* or of an array of n.
DecodeType ==
    /\ last.op = "encoding"
    /\ \E wrap \in {"none", "pointer", "array"} :
       \E n \in (IF wrap = "array" THEN Counts ELSE {<<>>}) :
          last' = [last EXCEPT
                      !.op = "decoded", !.show = wrap, !.env = n,
                      !.names = decode_type_encoding(last.pattern),
                      !.members =
                          decode_type_encoding(
                              IF wrap = "pointer" THEN Pointer(last.pattern)
                              ELSE IF wrap = "array" THEN Array(n, last.pattern)
                              ELSE last.pattern)]
    /\ UNCHANGED <<_class_cache, legacy_class_cache, _selector_cache, remote_heap, history,
                   breakpoints, watch_vars>>

NextDecode == DecodeType

SpecDecode == InitDecode /\ [][NextDecode]_vars

\* attr_string.split(',')
RECURSIVE split(_)
split(s) ==
    LET comma == find(s, <<COMMA>>, 0)
    IN  IF comma = -1 THEN <<s>>
        ELSE <<PySlice(s, 0, comma)>> \o split(PySlice(s, comma + 1, Len(s)))

\* The words of the tokens R, C, &, N, D, W.
attribute_words ==
    (<<82>> :> <<114, 101, 97, 100, 111, 110, 108, 121>>)
    @@ (<<67>> :> <<99, 111, 112, 121>>)
    @@ (<<38>> :> <<115, 116, 114, 111, 110, 103>>)
    @@ (<<78>> :> <<110, 111, 110, 97, 116, 111, 109, 105, 99>>)
    @@ (<<68>> :> <<100, 121, 110, 97, 109, 105, 99>>)
    @@ (<<87>> :> <<119, 101, 97, 107>>)

\* The value of a variable the loop over the parts assigns when a part
\* starts with the letter: the rest of the last such part, or none.
LastPart(parts, letter, none) ==
    LET hits == {i \in 1..Len(parts) :
                    /\ startswith(parts[i], <<letter>>)
                    /\ \A c \in {84, 86, 71, 83} \ {letter} :
                          ~startswith(parts[i], <<c>>)}
    IN  IF hits = {} THEN none
        ELSE Tail(parts[CHOOSE i \in hits : \A k \in hits : k <= i])

\* parse_property_attributes: the empty string returns ("?", []), any
\* other (type_string, attributes, ivar_name); arity is the length of the
\* tuple returned.
parse_property_attributes(attr_string) ==
    IF attr_string = <<>>
    THEN [arity |-> 2, type_string |-> <<QMARK>>, attributes |-> <<>>, ivar_name |-> None]
    ELSE LET parts == split(attr_string)
             type_enc == LastPart(parts, 84, None)
             getter_name == LastPart(parts, 71, <<>>)
             setter_name == LastPart(parts, 83, <<>>)
             flags == SelectSeq(parts, LAMBDA part : part \in DOMAIN attribute_words)
         IN  [arity |-> 3,
              type_string |-> IF type_enc = None THEN <<QMARK>>
                              ELSE decode_type_encoding(type_enc),
              attributes |->
                  [i \in 1..Len(flags) |-> attribute_words[flags[i]]]
                      \o (IF getter_name # <<>>
                          THEN <<(<<103, 101, 116, 116, 101, 114, EQUALS>> \o getter_name)>>
                          ELSE <<>>)
                      \o (IF setter_name # <<>>
                          THEN <<(<<115, 101, 116, 116, 101, 114, EQUALS>> \o setter_name)>>
                          ELSE <<>>),
              ivar_name |-> LastPart(parts, 86, None)]

MaxParts == 3

\* The tokens "Ti", "R", "N", "V_x", "Gx", the unrecognized "X" and "P", and
\* the empty token.
Tokens ==
    {<<84, 105>>, <<82>>, <<78>>, <<86, 95, 120>>, <<71, 120>>, <<88>>, <<80>>, <<>>}

\* The attribute strings of up to n tokens; the string of no token is the
\* one get_class_properties records when a property has no attributes or
\* when the read of its attributes fails.
RECURSIVE AttributeStrings(_)
AttributeStrings(n) ==
    IF n = 0 THEN {<<>>}
    ELSE Tokens \cup AttributeStrings(n - 1)
            \cup {s \o <<COMMA>> \o t : s \in AttributeStrings(n - 1) \ {<<>>}, t \in Tokens}

InitAttributes ==
    /\ _class_cache = [pid \in {1} |-> NoEntry]
    /\ legacy_class_cache = [pid \in {1} |-> NoEntry]
    /\ _selector_cache = [pid \in {1} |-> [c \in SelClasses |-> NoSelEntry]]
    /\ remote_heap = [pid \in {1} |-> {}]
    /\ history = [pid \in {1} |-> FreshHistory]
    /\ breakpoints = [pid \in {1} |-> {}]
    /\ InitWatches({1})
    /\ \E prop_attrs \in AttributeStrings(MaxParts) :
          last = [Idle EXCEPT !.op = "property", !.pattern = prop_attrs]

\* ocls --properties shows a property: "type_str, attrs_list, ivar_name =
\* parse_property_attributes(prop_attrs)" raises when the tuple has not
\* three parts.
ShowProperty ==
    /\ last.op = "property"
    /\ \E r \in {parse_property_attributes(last.pattern)} :
          last' = [last EXCEPT !.op = "shown", !.count = r.arity,
                               !.crashed = r.arity # 3,
                               !.names = r.type_string, !.members = r.attributes,
                               !.symbol = r.ivar_name]
    /\ UNCHANGED <<_class_cache, legacy_class_cache, _selector_cache, remote_heap, history,
                   breakpoints, watch_vars>>

NextAttributes == ShowProperty

SpecAttributes == InitAttributes /\ [][NextAttributes]_vars

(***************************************************************************)
(* ocall of objc_call.py, and the commands that detect the method type.    *)
(***************************************************************************)
DOLLAR == 36

\* The register "$x0" as a receiver.
Register == <<DOLLAR, 120, 48>>

\* receiver.startswith('$') or receiver.startswith('0x') or receiver.isdigit()
is_instance_receiver(receiver) ==
    \/ startswith(receiver, <<DOLLAR>>)
    \/ startswith(receiver, <<48, 120>>)
    \/ receiver # <<>> /\ \A i \in 1..Len(receiver) : isdigit(receiver[i])

\* detect_method_type of objc_call.py: an instance method without any probe
\* when the receiver is a variable, a register or an address, the shared
\* detection otherwise.
call_detect_method_type(receiver, selector, probes) ==
    IF is_instance_receiver(receiver) THEN "InstanceReceiver"
    ELSE detect_method_type(receiver, selector, probes)

\* ocall -[receiver selector], +[Class selector] or [Class selector], the
\* selector without arguments.  env names the expression that fails: the
\* class lookup ("class") or the call itself ("call").
ocall(pid, receiver, selector, kind, env, probes) ==
    LET outcome == IF kind = "auto" THEN call_detect_method_type(receiver, selector, probes)
                   ELSE "none"
        is_class_method == IF kind = "auto" THEN outcome = "ClassMethod" ELSE kind = "class"
        error == IF is_class_method
                 THEN (IF env = "class" THEN "class_failed"
                       ELSE IF receiver \notin RuntimeClasses THEN "class_not_found"
                       ELSE IF env = "call" THEN "call_failed" ELSE "none")
                 ELSE (IF ~is_instance_receiver(receiver) THEN "invalid_receiver"
                       ELSE IF env = "call" THEN "call_failed" ELSE "none")
    IN  /\ last' = [Idle EXCEPT
                       !.op = "ocall", !.pid = pid, !.class_name = receiver,
                       !.selector = selector, !.top = env, !.error = error,
                       !.show = IF is_class_method THEN "class" ELSE "instance",
                       !.path = outcome,
                       !.menv = IF kind = "auto" /\ ~is_instance_receiver(receiver)
                                THEN probes ELSE {}]
        /\ UNCHANGED <<_class_cache, legacy_class_cache, _selector_cache, remote_heap,
                       history, breakpoints, watch_vars>>

\* The calls of the commands: the requests of the resolver, and hash sent
\* to the register.
Calls == Requests \cup {[class_name |-> Register, selector |-> Hash]}

\* The probes run for the bracket syntax only.
CallCommands ==
    \E pid \in Pids, m \in Calls, kind \in {"instance", "class", "auto"},
       env \in {"ok", "class", "call"} :
        \E probes \in IF kind = "auto" THEN ProbeFaults ELSE {{}} :
            ocall(pid, m.class_name, m.selector, kind, env, probes)

\* obrk [Class selector], the probes of the detection failing or not.
DetectingBreaks ==
    \E pid \in Pids, m \in Requests, env \in {"ok", "noimp"}, probes \in ProbeFaults :
        obrk(pid, m.class_name, m.selector, "auto", env, probes)

NextDetect == DetectingBreaks \/ CallCommands

SpecDetect == Init /\ [][NextDetect]_vars

(***************************************************************************)
(* osel on a target in which no remote call fails.                         *)
(***************************************************************************)
Untroubled == [classes |-> {}, members |-> {}, sizes |-> {DEFAULT_BATCH_SIZE}]

NextKinds == SelCommands(Untroubled)

SpecKinds == Init /\ [][NextKinds]_vars

(***************************************************************************)
(* Two processes debugged in one session, their caches cleared and filled  *)
(* by ocls and osel; no remote call fails.                                 *)
(***************************************************************************)
\* ocls [--clear-cache] [--reload] without pattern.
ClassQueries(target) ==
    \E pid \in Pids, clear_cache \in BOOLEAN, force_reload \in BOOLEAN :
        ocls(pid, clear_cache, force_reload, None, "none", target)

NextClear == ClassQueries(Untroubled) \/ SelQueries(Untroubled)

SpecClear == InitFor({1, 3}) /\ [][NextClear]_vars

(***************************************************************************)
(* The two paths of get_class_ivars of objc_cls.py from the list of ivar   *)
(* pointers to the (name, type, offset) descriptors: the batched           *)
(* expression with memory reads, and the fallback of one expression per    *)
(* value.  An ivar is what the runtime reports for its pointer: its name,  *)
(* its type encoding (None for a null pointer) and its byte offset.        *)
(***************************************************************************)
MaxIvars == 2

\* GetSummary of a C string: the text between quotes, its quotes escaped.
GetSummary(s) == <<QUOTE>> \o replace(s, <<QUOTE>>, <<BACKSLASH, QUOTE>>) \o <<QUOTE>>

\* "if s.startswith('"') and s.endswith('"'): s = s[1:-1]".
strip_outer_quotes(s) ==
    IF startswith(s, <<QUOTE>>) /\ endswith(s, <<QUOTE>>)
    THEN (IF Len(s) >= 2 THEN SubSeq(s, 2, Len(s) - 1) ELSE <<>>)
    ELSE s

\* An offset is <<n>>, and <<>> for Python's None.
batched_ivar(ivar) ==
    [name |-> ivar.name,
     type |-> IF ivar.type = None \/ ivar.type = <<>> THEN <<QMARK>> ELSE ivar.type,
     offset |-> IF ivar.offset # 0 THEN <<ivar.offset>> ELSE <<>>]

serial_ivar(ivar) ==
    [name |-> strip_outer_quotes(GetSummary(ivar.name)),
     type |-> IF ivar.type = None \/ ivar.type = <<>> THEN <<QMARK>>
              ELSE replace(strip_outer_quotes(GetSummary(ivar.type)),
                           <<BACKSLASH, QUOTE>>, <<QUOTE>>),
     offset |-> <<ivar.offset>>]

\* The descriptors of the ivars of a class: batch_failed says that the
\* batched expression failed to evaluate.
ivar_descriptors(ivar_list, batch_failed) ==
    IF batch_failed THEN [i \in 1..Len(ivar_list) |-> serial_ivar(ivar_list[i])]
    ELSE [i \in 1..Len(ivar_list) |-> batched_ivar(ivar_list[i])]

\* The ivars a class may have: named a or b, of type int, an object type
\* with a quoted class name or without type encoding, at offset 0 or 8.
IvarData ==
    [name : {<<97>>, <<98>>}, type : {None, <<105>>, <<AT, QUOTE, 70, QUOTE>>},
     offset : {0, 8}]

InitIvars ==
    /\ _class_cache = [pid \in {1} |-> NoEntry]
    /\ legacy_class_cache = [pid \in {1} |-> NoEntry]
    /\ _selector_cache = [pid \in {1} |-> [c \in SelClasses |-> NoSelEntry]]
    /\ remote_heap = [pid \in {1} |-> {}]
    /\ history = [pid \in {1} |-> FreshHistory]
    /\ breakpoints = [pid \in {1} |-> {}]
    /\ InitWatches({1})
    /\ \E ivar_list \in UNION {[1..n -> IvarData] : n \in 0..MaxIvars} :
          last = [Idle EXCEPT !.op = "class", !.members = ivar_list]

\* ocls --ivars for the class, its batched expression failing or not.
ShowIvars ==
    /\ last.op = "class"
    /\ \E batch_failed \in BOOLEAN :
          last' = [last EXCEPT !.op = "ivars",
                               !.names = ivar_descriptors(last.members, batch_failed),
                               !.path = IF batch_failed THEN "serial" ELSE "batched"]
    /\ UNCHANGED <<_class_cache, legacy_class_cache, _selector_cache, remote_heap, history,
                   breakpoints, watch_vars>>

NextIvars == ShowIvars

SpecIvars == InitIvars /\ [][NextIvars]_vars

(***************************************************************************)
(* ocls with --batch-size on a target in which no remote call fails.       *)
(***************************************************************************)
\* "batch_size = int(...); if batch_size < 1: batch_size = DEFAULT_BATCH_SIZE".
parse_batch_size(arg) == IF arg < 1 THEN DEFAULT_BATCH_SIZE ELSE arg

BatchSizeArgs == {0, 1, DEFAULT_BATCH_SIZE}

\* ocls --batch-size=arg [pattern] [--clear-cache] [--reload]: the batch
\* size matters to a call that enumerates.
BatchSizeCommands ==
    \E pid \in Pids, clear_cache \in BOOLEAN, force_reload \in BOOLEAN,
       pattern \in Patterns, arg \in BatchSizeArgs :
        LET entry == IF clear_cache THEN NoEntry ELSE _class_cache[pid]
            sizes == IF IsPlain(pattern) \/ CacheHit(entry, force_reload)
                     THEN {DEFAULT_BATCH_SIZE} ELSE {parse_batch_size(arg)}
        IN  ocls(pid, clear_cache, force_reload, pattern, "none",
                 [Untroubled EXCEPT !.sizes = sizes])

NextBatch == BatchSizeCommands

SpecBatch == Init /\ [][NextBatch]_vars

(***************************************************************************)
(* owatch of scripts/objc_watch.py: the watch table of each process, the   *)
(* breakpoints the command creates in the target, the callback that runs   *)
(* on every hit of such a breakpoint, owatch list and owatch clear.        *)
(***************************************************************************)
\* The breakpoint ids one target hands out before the model stops creating.
MaxBreakpointId == 2

\* The hits the model lets a watch without a limit take.
MaxHits == 2

\* The largest N of --count=N.
MaxCount == 2

\* _get_watches_for_process.
_get_watches_for_process(pid) == _active_watches_by_process[pid]

\* The flag in front of the method signature: none, --once, --count=N with
\* an integer N, --count=text, or a flag the command does not know.
WatchArgs ==
    {[flag |-> f, n |-> 0] : f \in {"none", "once", "count_text", "unknown"}}
    \cup {[flag |-> "count", n |-> n] : n \in 0..MaxCount}

\* _parse_flags: the count limit, 0 for none, or the error.
_parse_flags(arg) ==
    CASE arg.flag = "once" -> [error |-> "none", count_limit |-> 1]
      [] arg.flag = "count" ->
            IF arg.n < 1 THEN [error |-> "count_not_positive", count_limit |-> 0]
            ELSE [error |-> "none", count_limit |-> arg.n]
      [] arg.flag = "count_text" -> [error |-> "count_invalid", count_limit |-> 0]
      [] arg.flag = "unknown" -> [error |-> "unknown_flag", count_limit |-> 0]
      [] OTHER -> [error |-> "none", count_limit |-> 0]

BreakpointDelete_kept(ids, bp_id) == ids

\* SBTarget.BreakpointDelete.
BreakpointDelete(ids, bp_id) == ids \ {bp_id}

\* "active_watches[bp_id] = {...}" and "del active_watches[bp_id]".
Registered(active_watches, bp_id, info) ==
    [i \in DOMAIN active_watches \cup {bp_id} |->
        IF i = bp_id THEN info ELSE active_watches[i]]

Removed(active_watches, bp_id) ==
    [i \in DOMAIN active_watches \ {bp_id} |-> active_watches[i]]

\* owatch [flag] -[Class selector] or +[Class selector] in full.  lldb says
\* what the target does: "ok", "invalid" when BreakpointCreateBySBAddress
\* returns no valid breakpoint, "nocallback" when SetScriptCallbackBody
\* fails on the breakpoint just created.
watch_objc_method(pid, class_name, selector, is_instance_method, env, arg, lldb) ==
    LET flags == _parse_flags(arg)
        r == ResolveTable[[class_name |-> class_name, selector |-> selector]]
                         [is_instance_method][env].scripts
        t == lldb_target[pid]
        bp_id == t.next_id
        error == IF flags.error # "none" THEN flags.error
                 ELSE IF r.error # "none" THEN r.error
                 ELSE IF lldb = "invalid" THEN "breakpoint_failed"
                 ELSE IF lldb = "nocallback" THEN "callback_failed"
                 ELSE "none"
        created == error \in {"none", "callback_failed"}
        info == [method_name |-> [class_name |-> class_name, selector |-> selector,
                                  is_instance_method |-> is_instance_method],
                 count_limit |-> flags.count_limit, hit_count |-> 0,
                 imp_addr |-> r.addr]
    IN  /\ created => bp_id <= MaxBreakpointId
        /\ lldb_target' =
              [lldb_target EXCEPT
                  ![pid] = IF ~created THEN @
                           ELSE [@ EXCEPT
                                    !.next_id = @ + 1,
                                    !.breakpoints =
                                        IF error = "none" THEN @ \cup {bp_id}
                                        ELSE BreakpointDelete(@ \cup {bp_id}, bp_id),
                                    !.logged = IF error = "none"
                                               THEN Registered(@, bp_id, 0) ELSE @]]
        /\ _active_watches_by_process' =
              [_active_watches_by_process EXCEPT
                  ![pid] = IF error = "none" THEN Registered(@, bp_id, info) ELSE @]
        /\ breakpoints' = [breakpoints EXCEPT
                              ![pid] = IF created THEN @ \cup {r.addr} ELSE @]
        /\ last' = [Idle EXCEPT !.op = "owatch", !.pid = pid, !.error = error,
                                !.count = IF created THEN bp_id ELSE 0]
        /\ UNCHANGED <<_class_cache, legacy_class_cache, _selector_cache, remote_heap,
                       history>>

limit_reached_late(count_limit, hit_count) == count_limit > 0 /\ hit_count > count_limit

\* "if count_limit > 0 and hit_count >= count_limit" of watch_callback.
limit_reached(count_limit, hit_count) == count_limit > 0 /\ hit_count >= count_limit

\* watch_callback: one hit of breakpoint bp_id of the target.  A breakpoint
\* without an entry in the table is passed over; otherwise the hit is
\* counted and logged, and at the limit the breakpoint and the entry go.
watch_callback(pid, bp_id) ==
    LET active_watches == _get_watches_for_process(pid)
        watched == bp_id \in DOMAIN active_watches
        hit_count == active_watches[bp_id].hit_count + 1
        count_limit == active_watches[bp_id].count_limit
        remove == limit_reached(count_limit, hit_count)
    IN  /\ bp_id \in lldb_target[pid].breakpoints
        /\ watched => active_watches[bp_id].hit_count < MaxHits
        /\ _active_watches_by_process' =
              [_active_watches_by_process EXCEPT
                  ![pid] = IF ~watched THEN @
                           ELSE IF remove THEN Removed(@, bp_id)
                           ELSE [@ EXCEPT ![bp_id].hit_count = hit_count]]
        /\ lldb_target' =
              [lldb_target EXCEPT
                  ![pid] = IF ~watched THEN @
                           ELSE [@ EXCEPT
                                    !.logged[bp_id] = @ + 1,
                                    !.breakpoints = IF remove
                                                    THEN BreakpointDelete(@, bp_id)
                                                    ELSE @]]
        /\ last' = [Idle EXCEPT !.op = "hit", !.pid = pid, !.count = bp_id,
                                !.path = IF ~watched THEN "unwatched"
                                         ELSE IF remove THEN "removed" ELSE "logged",
                                !.reads = IF watched THEN hit_count ELSE 0]
        /\ UNCHANGED <<_class_cache, legacy_class_cache, _selector_cache, remote_heap,
                       history, breakpoints>>

RECURSIVE DeleteAll(_, _)
\* "for bp_id in list(active_watches.keys()): target.BreakpointDelete(bp_id)".
DeleteAll(ids, keys) ==
    IF keys = {} THEN ids
    ELSE LET bp_id == CHOOSE k \in keys : TRUE
         IN  DeleteAll(BreakpointDelete(ids, bp_id), keys \ {bp_id})

\* owatch clear.
clear_watches(pid) ==
    LET active_watches == _get_watches_for_process(pid)
    IN  /\ lldb_target' =
              [lldb_target EXCEPT
                  ![pid].breakpoints = DeleteAll(@, DOMAIN active_watches)]
        /\ _active_watches_by_process' =
              [_active_watches_by_process EXCEPT ![pid] = NoWatches]
        /\ last' = [Idle EXCEPT !.op = "owatch_clear", !.pid = pid,
                                !.count = Cardinality(DOMAIN active_watches)]
        /\ UNCHANGED <<_class_cache, legacy_class_cache, _selector_cache, remote_heap,
                       history, breakpoints>>

\* owatch list.
list_watches(pid) ==
    /\ last' = [Idle EXCEPT !.op = "owatch_list", !.pid = pid,
                            !.count = Cardinality(DOMAIN _get_watches_for_process(pid))]
    /\ UNCHANGED <<_class_cache, legacy_class_cache, _selector_cache, remote_heap,
                   history, breakpoints, watch_vars>>

\* The methods watched: one that resolves and one no class implements.
Watched == {[class_name |-> FooBar, selector |-> s] : s \in {Hash, Zap}}

WatchingCommands ==
    \E pid \in Pids, m \in Watched, env \in {"ok"}, arg \in WatchArgs,
       lldb \in {"ok", "invalid", "nocallback"} :
        watch_objc_method(pid, m.class_name, m.selector, TRUE, env, arg, lldb)

Hits == \E pid \in Pids, bp_id \in 1..MaxBreakpointId : watch_callback(pid, bp_id)

WatchSubcommands == \E pid \in Pids : clear_watches(pid) \/ list_watches(pid)

NextWatch == WatchingCommands \/ Hits \/ WatchSubcommands

SpecWatch == Init /\ [][NextWatch]_vars

(***************************************************************************)
(* Claims about the class cache.                                           *)
(***************************************************************************)
\* C1: after a clear of a process's class cache, the first enumeration of
\* all classes without reload that completes re-enumerates from the runtime
\* and reports from_cache = FALSE; every later one, until a clear or a
\* reload, is answered from the cache (from_cache = TRUE, no remote call).
C1_ReenumeratesOnceAfterClear ==
    (/\ last.op = "ocls"
     /\ Completed(last)
     /\ ~last.force_reload
     /\ history[last.pid].epoch = "clear")
    => IF history[last.pid].n = 1
       THEN last.path = "miss" /\ ~last.from_cache /\ last.evals > 0
       ELSE last.path = "hit" /\ last.from_cache /\ last.evals = 0 /\ last.reads = 0

C1_Witness ==
    /\ last.op = "ocls"
    /\ Completed(last)
    /\ ~last.force_reload
    /\ history[last.pid].epoch = "clear"
    /\ history[last.pid].n = 2
    /\ last.from_cache

\* The class cache entry of some process is written, or dropped, by a step.
ClassCacheWritten ==
    \E pid \in Pids : /\ _class_cache'[pid].present
                      /\ _class_cache'[pid] # _class_cache[pid]

ClassCacheDropped ==
    \E pid \in Pids : _class_cache[pid].present /\ ~_class_cache'[pid].present

SelCacheWritten ==
    \E pid \in Pids, c \in SelClasses :
        /\ _selector_cache'[pid][c].present
        /\ _selector_cache'[pid][c] # _selector_cache[pid][c]

SelCacheDropped ==
    \E pid \in Pids, c \in SelClasses :
        _selector_cache[pid][c].present /\ ~_selector_cache'[pid][c].present

\* C2: a class cache entry is written only by the runtime walk (miss or
\* reload) of an enumeration of all classes, run by the class listing or by
\* the conforming-classes query that obtains its class list through it; a
\* method cache entry only by the runtime walk of a method enumeration;
\* an entry disappears only in a command that clears; every other step,
\* cache hits, exact lookups, ivar and property queries and protocol
\* listings included, leaves both caches as they were.
C2_CacheWrittenOnlyByRuntimeWalk ==
    [][/\ ClassCacheWritten
            => /\ last'.path = "miss"
               /\ \/ last'.op = "ocls"
                  \/ last'.op = "oprotos" /\ last'.show \in {"all", "direct"}
       /\ ClassCacheDropped => last'.op = "ocls" /\ last'.cleared
       /\ SelCacheWritten => last'.op = "osel" /\ last'.path = "miss"
       /\ SelCacheDropped => last'.op = "osel" /\ last'.cleared]_vars

\* A conforming-classes query has just populated the class cache.
C2_Witness ==
    /\ last.op = "oprotos"
    /\ last.pattern = Pa
    /\ last.path = "miss"
    /\ ~last.force_reload
    /\ _class_cache[last.pid].present
    /\ last.names = <<Foo>>

\* C2 as stated: only the class listing and the method listing write or
\* drop cache entries; protocol queries leave both caches unchanged.
C2_ProtocolQueriesLeaveCache ==
    [][/\ (ClassCacheWritten \/ ClassCacheDropped)
            => last'.op = "ocls" /\ (last'.path = "miss" \/ last'.cleared)
       /\ (SelCacheWritten \/ SelCacheDropped)
            => last'.op = "osel" /\ (last'.path = "miss" \/ last'.cleared)]_vars

\* C3: a completed enumeration of all classes returns the names and the
\* count that the first completed enumeration with the same pattern for the
\* same process returned since the last clear or reload.
C3_RepeatedEnumerationIdentical ==
    (last.op = "ocls" /\ Completed(last))
    => LET first == history[last.pid].seen[last.pattern]
       IN  first.seen /\ first.names = last.names /\ first.count = last.count

C3_Witness ==
    /\ last.op = "ocls"
    /\ Completed(last)
    /\ ~last.force_reload
    /\ last.pattern = FooStar
    /\ history[last.pid].n = 2
    /\ last.from_cache
    /\ last.names = <<Foo>>

\* C4: a cache hit of the class finder, in objc_cls.py and in
\* objc_classes.py alike, returns exactly the names matching its pattern
\* among all the names the runtime walk that populated the cache resolved,
\* whatever pattern that walk was called with.
C4_CacheHoldsUnfilteredList ==
    /\ (last.op = "ocls" /\ last.path = "hit")
        => last.names = Filter(history[last.pid].full, last.pattern)
    /\ (last.op = "oclasses" /\ last.path = "hit")
        => last.names = legacy_Filter(history[last.pid].legacy_full, last.pattern)

\* C5: a caller that modifies a list returned by an enumeration does not
\* change the class cache or the method cache, hence nothing a later cache
\* hit returns.
C5_ReturnedByCopy ==
    [][last'.op = "caller" => UNCHANGED <<breakpoints, _class_cache, _selector_cache>>]_vars

NamesIn(items) == {items[i].name : i \in 1..Len(items)}

C8_FailedBatchFallsBack ==
    \A k \in 1..MaxClasses :
        last.env = {Fault("expr", k)}
        => /\ last.op \in {"ocls", "oprotos"} /\ last.path # "list"
                => /\ last.path = "miss" /\ ~last.crashed
                   /\ SeqSet(NamesOf(BatchOf(ClassList(last.pid), k, last.batch_size)))
                         \subseteq SeqSet(history[last.pid].full)
                   /\ SeqSet(Resolved(last.pid, last.batch_size, NoFaults))
                         \subseteq SeqSet(history[last.pid].full)
                   /\ _class_cache[last.pid].classes = history[last.pid].full
           /\ last.op = "osel"
                => /\ last.path = "miss"
                   /\ NamesIn(last.names)
                         = NamesIn(SelFilter(InstanceMethods(last.class_name), last.pattern))
           /\ last.op = "oprotos" /\ last.path = "list"
                => SeqSet(last.names)
                      = {p \in SeqSet(ProtocolList) : _matches_pattern(p, last.pattern)}

C8_Witness ==
    /\ last.op = "ocls"
    /\ last.path = "miss"
    /\ last.batch_size = 1
    /\ last.env = {Fault("expr", 2)}
    /\ history[last.pid].full = NamesOf(ClassList(last.pid))

\* C9: an ivar or property query whose only trouble is a batch failure (the
\* batch expression fails, the info pointer is null, or the read of the
\* info block fails) still returns every ivar or property of the class.
C9_MemberBatchFailureFallsBack ==
    (/\ last.op = "ocls"
     /\ last.show # "none"
     /\ SingleMatch(last)
     /\ \A f \in last.menv : f.kind \in InfoBatchKinds)
    => NamesIn(last.members) = NamesIn(MembersOf(last.show, last.names[1]))

\* C10: a class enumeration whose only trouble is a batch buffer that cannot
\* be read or parsed (a failed offset-table or heap read, a name without
\* terminator in the heap) still resolves every class of the process.
C10_MalformedBufferRecovered ==
    (/\ last.op = "ocls"
     /\ last.path = "miss"
     /\ \A f \in last.env : f.kind \in {"offread", "heapread"})
    => history[last.pid].full = NamesOf(ClassList(last.pid))

(***************************************************************************)
(* Claims about the consolidated buffer.                                   *)
(***************************************************************************)
\* The strings of a batch slot by slot, None marking an absent slot.
Slots(batch) ==
    [i \in 1..Len(batch) |-> IF batch[i] = 0 THEN None ELSE class_getName(batch[i])]

\* C11: writing a batch with the batch expression and decoding the block
\* with the reader gives back, slot by slot and in order, the string of
\* every present slot and the absence of every absent one.
C11_BufferRoundTrip ==
    last.op = "buffer" => last.names = Slots(last.members)

(***************************************************************************)
(* Claims about the method cache.                                          *)
(***************************************************************************)
\* The step is an osel query of class class_name in process pid, given
\* neither --reload nor --clear-cache.
PlainSelQuery(pid, class_name) ==
    /\ last'.op = "osel" /\ last'.pid = pid /\ last'.class_name = class_name
    /\ ~last'.force_reload /\ ~last'.cleared
    /\ last'.path # "usage"

\* C12: once the methods of a class have been enumerated for a process,
\* every later query for that process and class without reload or clear is
\* answered from the cache with no expression evaluation and no memory read.
C12_CachedMethodsNeedNoRemoteCall ==
    [][\A pid \in Pids, class_name \in SelClasses :
          (class_name \in history[pid].methods /\ PlainSelQuery(pid, class_name))
          => /\ last'.from_cache
             /\ last'.evals = 0 /\ last'.reads = 0
             /\ remote_heap' = remote_heap]_vars

C12_Witness ==
    /\ last.op = "osel" /\ last.path = "hit"
    /\ ~last.force_reload /\ ~last.cleared
    /\ last.class_name \in history[last.pid].methods
    /\ Len(last.names) > 0
    /\ last.evals = 0 /\ last.reads = 0

(***************************************************************************)
(* Claims about the lookup by exact name.                                  *)
(***************************************************************************)
\* C13: a pattern without wildcards is resolved by the direct lookup
\* alone: a found class is the class of exactly that name, confirmed in
\* two expression evaluations and no memory read whatever the number of
\* classes of the process; otherwise nothing is found, after at most those
\* two evaluations, and in both cases no enumeration runs and the class
\* cache is left as the command found it.
C13_ExactLookupTwoCalls ==
    [][(last'.op = "ocls" /\ IsPlain(last'.pattern))
       => /\ last'.path = "fast" /\ ~last'.from_cache
          /\ last'.reads = 0
          /\ remote_heap' = remote_heap
          /\ _class_cache'[last'.pid] =
                 IF last'.cleared THEN NoEntry ELSE _class_cache[last'.pid]
          /\ IF ClassExists(last'.pid, last'.pattern) /\ last'.env = NoFaults
             THEN /\ last'.names = <<last'.pattern>> /\ last'.count = 1
                  /\ last'.evals = 2
             ELSE /\ last'.names = <<>> /\ last'.count = 0
                  /\ last'.evals \in {1, 2}]_vars

\* A class found by name in the process with more classes, and a name that
\* differs from a class name in case only.
C13_Witness ==
    /\ last.op = "ocls" /\ last.pattern = LongName /\ last.pid = 1
    /\ last.names = <<LongName>> /\ last.evals = 2
    /\ _class_cache[2].present /\ ~_class_cache[1].present

C13_WitnessNotFound ==
    /\ last.op = "ocls" /\ last.pattern = foo /\ last.env = NoFaults
    /\ last.names = <<>> /\ _class_cache[last.pid].present

(***************************************************************************)
(* Claims about the method resolver.                                       *)
(***************************************************************************)
\* The step an error names.
StepNamed(error) ==
    CASE error \in {"class_failed", "class_not_found"} -> "class"
      [] error \in {"selector_failed", "selector_not_found"} -> "selector"
      [] error = "metaclass_failed" -> "metaclass"
      [] error \in {"imp_failed", "imp_not_found"} -> "imp"
      [] error \in {"address_failed", "forwarding"} -> "symbol"
      [] OTHER -> "none"

ResolutionOrder(is_instance_method) ==
    IF is_instance_method THEN <<"class", "selector", "imp", "symbol">>
    ELSE <<"class", "selector", "metaclass", "imp", "symbol">>

\* The first step that fails in the target, from what the target does:
\* lookups is the set of troubles that count as a failure of the symbol
\* lookup of a method.
FirstFailure(class_name, selector, is_instance_method, env, lookups) ==
    IF env = "class" \/ class_name \notin RuntimeClasses THEN "class"
    ELSE IF env \in {"sel", "nosel"} THEN "selector"
    ELSE IF env = "meta" /\ ~is_instance_method THEN "metaclass"
    ELSE IF env \in {"imp", "noimp"} THEN "imp"
    ELSE IF class_getMethodImplementation(class_name, selector, is_instance_method)
                = _objc_msgForward
    THEN "symbol"
    ELSE IF env \in lookups THEN "symbol"
    ELSE "none"

\* The last resolution ran the steps in order up to the step failed, named
\* it, and returned no address; with no failed step it ran them all.
EndsAt(failed) ==
    LET order == ResolutionOrder(last.show = "instance")
    IN  IF failed = "none"
        THEN last.steps = order /\ last.error = "none" /\ last.addr # 0
        ELSE /\ \E k \in 1..Len(order) :
                    order[k] = failed /\ last.steps = SubSeq(order, 1, k)
             /\ StepNamed(last.error) = failed
             /\ last.addr = 0

\* C14 as stated: the steps run in the order class, selector, metaclass
\* (class methods only), implementation address, symbol, and the first
\* step that fails, the symbol lookup included, ends the resolution with
\* an error naming it, no later step and no usable address.
C14_FirstFailingStepEndsResolution ==
    last.op \in {"obrk", "owatch"}
    => EndsAt(FirstFailure(last.class_name, last.selector, last.show = "instance",
                           last.top, {"addr", "nosym"}))

\* C14, amended: the same for the class, selector, metaclass and
\* implementation steps and for a forwarding stub; the symbol lookup of a
\* method is best effort: a missing symbol is no failure, and an address
\* outside every image is a failure for the resolver of owatch only.
C14_FirstFailingStepEndsResolutionBestEffortSymbol ==
    /\ last.op = "owatch"
       => EndsAt(FirstFailure(last.class_name, last.selector, last.show = "instance",
                              last.top, {"addr"}))
    /\ last.op = "obrk"
       => EndsAt(FirstFailure(last.class_name, last.selector, last.show = "instance",
                              last.top, {}))

\* A class method whose metaclass lookup failed.
C14_Witness ==
    /\ last.op = "owatch" /\ last.show = "class" /\ last.top = "meta"
    /\ last.steps = <<"class", "selector", "metaclass">>
    /\ last.error = "metaclass_failed" /\ last.addr = 0
    /\ breakpoints[last.pid] # {}

ImplementingClass(addr) == MethodAt(addr).cls

\* C16: a resolution that succeeds at a method with a symbol is annotated
\* as inherited from the class that implements the method exactly when
\* that class is an ancestor and not the requested class itself; the
\* annotation never names the requested class.
C16_InheritedNamesImplementingAncestor ==
    (last.op \in {"obrk", "owatch"} /\ last.error = "none" /\ last.symbol # None)
    => /\ last.inherited_from # last.class_name
       /\ last.inherited_from =
              IF ImplementingClass(last.addr) # last.class_name
              THEN ImplementingClass(last.addr)
              ELSE None

(***************************************************************************)
(* Claims about the class hierarchy.                                       *)
(***************************************************************************)
\* The class pointers from class_ptr upwards, at most n of them.
RECURSIVE SuperclassChain(_, _, _)
SuperclassChain(superclass, class_ptr, n) ==
    IF class_ptr = 0 \/ n = 0 THEN <<>>
    ELSE <<class_ptr>> \o SuperclassChain(superclass, superclass[class_ptr], n - 1)

IsPrefix(s, t) == Len(s) <= Len(t) /\ SubSeq(t, 1, Len(s)) = s

\* C17: for any superclass data, cyclic data included, the hierarchy walk
\* ends within 20 rounds: at most 20 names, two evaluations a round; the
\* names are those of the class and of its successive superclasses in that
\* order, and when nothing fails they go up to the root, or stop at the
\* twentieth class when no root is reached by then.
C17_HierarchyBoundedAndOrdered ==
    last.op = "hierarchy"
    => LET chain == SuperclassChain(last.members, last.count, max_depth)
       IN  /\ Len(last.names) <= max_depth
           /\ last.evals <= 1 + 2 * max_depth
           /\ IsPrefix(last.names, NamesOf(chain))
           /\ last.env = NoFaults
              => /\ last.names = NamesOf(chain)
                 /\ Len(chain) < max_depth /\ chain # <<>>
                    => last.members[chain[Len(chain)]] = 0

\* A cycle of two classes: the walk stops at the twentieth name.
C17_Witness ==
    /\ last.op = "hierarchy" /\ last.env = NoFaults
    /\ Len(last.names) = max_depth
    /\ last.names[1] = Foo /\ last.names[2] = LongName /\ last.names[max_depth] = LongName

(***************************************************************************)
(* Claims about protocol conformance.                                      *)
(***************************************************************************)
\* The classes of the process, in the order of the class list.
ClassesOf(pid) == NamesOf(ClassList(pid))

\* A class conforms directly: it has no superclass, or its immediate
\* superclass does not conform.
DirectlyConforms(class_name, protocol_name) ==
    /\ class_conformsToProtocol(class_name, protocol_name)
    /\ \/ class_getSuperclass(class_name) = None
       \/ ~class_conformsToProtocol(class_getSuperclass(class_name), protocol_name)

\* A conformance query that found its protocol and ran with no failure.
ConformanceAnswered ==
    /\ last.op = "oprotos" /\ last.show \in {"direct", "all"}
    /\ last.path \in {"hit", "miss"}
    /\ last.env = NoFaults /\ last.menv = NoFaults

\* C18: with --direct the result is exactly the conforming classes that
\* have no superclass or whose immediate superclass does not conform, each
\* marked direct; without it the result is every conforming class, marked
\* direct under the same rule.
C18_DirectConformance ==
    ConformanceAnswered
    => LET protocol_name == last.pattern
           all == ClassesOf(last.pid)
       IN  /\ Len(last.members) = Len(last.names)
           /\ last.show = "direct"
              => /\ last.names = SelectSeq(all, LAMBDA n :
                                               DirectlyConforms(n, protocol_name))
                 /\ \A k \in 1..Len(last.members) : last.members[k]
           /\ last.show = "all"
              => /\ last.names = SelectSeq(all, LAMBDA n :
                                               class_conformsToProtocol(n, protocol_name))
                 /\ \A k \in 1..Len(last.names) :
                       last.members[k] <=> DirectlyConforms(last.names[k], protocol_name)

\* --direct kept the root class and the class under a superclass that does
\* not conform, and left out the subclass that conforms through its parent.
C18_Witness ==
    /\ ConformanceAnswered /\ last.show = "direct" /\ last.pattern = Pa
    /\ last.names = <<Foo, Baz>>
    /\ FooBar \in SeqSet(ClassesOf(last.pid))

\* The class k superclass steps above class_name in the map, None when the
\* chain leaves the conforming classes before.
RECURSIVE ConformingAncestor(_, _, _, _)
ConformingAncestor(superclass_map, conforming_set, class_name, k) ==
    IF k = 0 THEN class_name
    ELSE LET below == ConformingAncestor(superclass_map, conforming_set, class_name, k - 1)
         IN  IF below = None \/ superclass_map[below] \notin conforming_set THEN None
             ELSE superclass_map[below]

\* The topmost conforming ancestors of a class: the conforming classes
\* above it (or itself) whose own superclass does not conform.  There is
\* one unless the chain of the class runs into a cycle.
TopmostConforming(superclass_map, conforming_set, class_name) ==
    {t \in conforming_set :
        /\ superclass_map[t] \notin conforming_set
        /\ \E k \in 0..Cardinality(conforming_set) :
              ConformingAncestor(superclass_map, conforming_set, class_name, k) = t}

\* C19: for every superclass-name map, cyclic ones included, each walk
\* ends within as many steps as there are conforming classes; a class
\* whose chain leads to a topmost conforming ancestor is listed under that
\* ancestor, whose subclass list is exactly the classes below it, sorted.
C19_GroupingWalkTerminates ==
    last.op = "grouped"
    => LET superclass_map == last.env
           conforming_set == DOMAIN superclass_map
           top(c) == TopmostConforming(superclass_map, conforming_set, c)
       IN  /\ last.evals <= Cardinality(conforming_set)
           /\ \A c \in conforming_set : \A t \in top(c) :
                 \E k \in 1..Len(last.names) :
                    /\ last.names[k].root = t
                    /\ c # t => c \in SeqSet(last.names[k].subclasses)
           /\ \A k \in 1..Len(last.names) :
                 /\ top(last.names[k].root) = {last.names[k].root}
                 /\ last.names[k].subclasses =
                        sorted(SelectSeq(GroupClasses, LAMBDA c :
                                   /\ c \in conforming_set /\ c # last.names[k].root
                                   /\ last.names[k].root \in top(c)))

\* Baz under FooBar under Foo: both listed under Foo; and a walk that met
\* a cycle.
C19_Witness ==
    /\ last.op = "grouped"
    /\ Len(last.names) = 1 /\ last.names[1].root = Foo
    /\ last.names[1].subclasses = <<Baz, FooBar>>
    /\ last.env[Baz] = FooBar /\ last.evals = 1

C19_WitnessCycle ==
    /\ last.op = "grouped" /\ DOMAIN last.env = SeqSet(GroupClasses)
    /\ last.env[Foo] = FooBar /\ last.env[FooBar] = Foo /\ last.env[Baz] = Foo
    /\ last.names = <<>>
    /\ last.evals = 2

(***************************************************************************)
(* Absent names and failed remote calls.                                   *)
(***************************************************************************)
\* What a lookup command hands to its caller: the path it reports, the
\* shape and content of its lists, the count and the message.
Reported(op, path, shape, names, count, error) ==
    [op |-> op, path |-> path, shape |-> shape, names |-> names, count |-> count,
     error |-> error]

Outcome(l) == Reported(l.op, l.path, l.shape, l.names, l.count, l.error)

\* The outcomes of the lookups of a name that does not exist, every remote
\* call succeeding: ocls with a plain name, osel, and oprotos.
NotFoundOutcomes ==
    {Reported("ocls", r.path, r.shape, r.names, r.count, "none") :
        r \in {get_all_classes(NoEntry, q[1], q[2], FALSE, DEFAULT_BATCH_SIZE, NoFaults) :
                  q \in {q \in AllPids \X ExactNames : ~ClassExists(q[1], q[2])}}}
    \cup {Reported("osel", r.path, "none", r.instance, 0, "class_not_found") :
            r \in {enumerate_methods(NoSelEntry, q[1], q[2], None, FALSE, FALSE, FALSE,
                                     [top |-> "ok", inst |-> NoFaults, cls |-> NoFaults]) :
                      q \in {q \in AllPids \X SelClasses : ~ClassExists(q[1], q[2])}}}
    \cup {Reported("oprotos", r.path, "none", r.names, r.scanned, "none") :
            r \in {find_conforming_classes(NoEntry, pid, Absent, direct_only, FALSE,
                                           DEFAULT_BATCH_SIZE, NoFaults, FALSE, NoFaults) :
                      pid \in AllPids, direct_only \in BOOLEAN}}

\* The remote call that looks the name up failed in the last command:
\* NSClassFromString or class_getName of ocls, NSClassFromString of osel,
\* objc_getProtocol of oprotos.
LookupFailed ==
    \/ /\ last.op = "ocls" /\ IsPlain(last.pattern)
       /\ \/ Fault("exact1", 0) \in last.env
          \/ Fault("exact2", 0) \in last.env /\ ClassExists(last.pid, last.pattern)
    \/ last.op = "osel" /\ last.path = "error" /\ last.top = "class"
    \/ last.op = "oprotos" /\ last.top = "proto"

\* C20: a failed remote call of a name lookup never gives the caller the
\* outcome that an absent class or protocol gives (NotFound).
C20_AbsentNeverConflatedWithFailure ==
    LookupFailed => Outcome(last) \notin NotFoundOutcomes

(***************************************************************************)
(* Failures inside the class enumeration.                                  *)
(***************************************************************************)
\* C21: whatever fails inside get_all_classes (the allocation of the count
\* variable, objc_copyClassList, the read of the count, the read of the
\* pointer array), the call returns its declared result of four parts and
\* the calling command (ocls, oprotos) unpacks it and finishes.
C21_FailuresReturnedInDeclaredShape ==
    last.op \in {"ocls", "oprotos"} /\ last.env # NoFaults
        => last.shape # "list" /\ ~last.crashed

(***************************************************************************)
(* Pattern matching.                                                       *)
(***************************************************************************)
\* The wildcard reading of a pattern: from position i of p and j of s on,
\* '*' stands for any run of characters, '?' for one character, and any
\* other character for itself in either case.
RECURSIVE WildcardMatchFrom(_, _, _, _)
WildcardMatchFrom(p, s, i, j) ==
    IF i > Len(p) THEN j > Len(s)
    ELSE IF p[i] = STAR
         THEN \E k \in j..(Len(s) + 1) : WildcardMatchFrom(p, s, i + 1, k)
         ELSE /\ j <= Len(s)
              /\ (p[i] = QMARK \/ Lower(p[i]) = Lower(s[j]))
              /\ WildcardMatchFrom(p, s, i + 1, j + 1)

\* C22: with '*' or '?' in the pattern, every finder keeps exactly the
\* names the pattern matches as a whole, case-insensitively, every
\* character but '*' and '?' standing for itself: "*" keeps every non-empty
\* name, "A?C" keeps "ABC" and not "ABBC", "Foo*" keeps Foo and FooBar and
\* not Baz.
C22_WildcardMatchesWholeName ==
    last.op = "matched" /\ has_wildcards(last.pattern)
        => /\ last.names = {n \in MatchNames : WildcardMatchFrom(last.pattern, n, 1, 1)}
           /\ last.pattern = <<STAR>> => MatchNames \ {<<>>} \subseteq last.names
           /\ last.pattern = <<65, QMARK, 67>>
                 => ABC \in last.names /\ ABBC \notin last.names
           /\ last.pattern = FooStar => last.names \cap {Foo, FooBar, Baz} = {Foo, FooBar}

\* A pattern with a full stop and a wildcard was matched: the full stop
\* kept the names with a full stop in its place and no others.
C22_Witness ==
    /\ last.op = "matched" /\ last.show = "class"
    /\ last.pattern = <<65, DOT, QMARK>>
    /\ <<65, DOT, 98>> \in last.names /\ <<65, 66, 98>> \notin last.names
    /\ <<65, DOT, 66>> \in last.names

\* The name with its capital letters in lower case.
Folded(s) == [i \in 1..Len(s) |-> Lower(s[i])]

C23_WitnessSelector ==
    /\ last.op = "matched" /\ last.show = "selector" /\ last.pattern = bar
    /\ last.names = {FooBar}

(***************************************************************************)
(* Type encodings and property attributes.                                 *)
(***************************************************************************)
\* C24: for every well-formed element encoding T, at every depth, the
\* pointer "^" T decodes to the decoding of T followed by " *" and the
\* array "[" n T "]" to the decoding of T followed by "[" n "]"; "i" decodes
\* to "int", "^i" to "int *", "[10i]" to "int[10]" and "b1" to "1 bit".
C24_DecodeFollowsGrammar ==
    last.op = "decoded"
        => /\ last.show = "pointer" => last.members = last.names \o <<SPACE, STAR>>
           /\ last.show = "array"
                 => last.members = last.names \o <<LBRACKET>> \o last.env \o <<RBRACKET>>
           /\ last.pattern = <<105>> => last.names = <<105, 110, 116>>
           /\ last.pattern = <<CARET, 105>> => last.names = <<105, 110, 116, SPACE, STAR>>
           /\ last.pattern = <<LBRACKET, 49, 48, 105, RBRACKET>>
                 => last.names = <<105, 110, 116, LBRACKET, 49, 48, RBRACKET>>
           /\ last.pattern = <<98, 49>> => last.names = <<49, SPACE, 98, 105, 116>>

\* C25: for every attribute string, the empty one and those with
\* unrecognized tokens included, parse_property_attributes returns the
\* three parts (decoded type, attribute words, backing ivar name) its
\* caller unpacks, and the attribute words come from recognized tokens only.
C25_AttributesDecodeToOneShape ==
    last.op = "shown"
        => /\ last.count = 3 /\ ~last.crashed
           /\ \A i \in 1..Len(last.members) :
                 \/ \E k \in DOMAIN attribute_words : last.members[i] = attribute_words[k]
                 \/ startswith(last.members[i], <<103, 101, 116, 116, 101, 114, EQUALS>>)
                 \/ startswith(last.members[i], <<115, 101, 116, 116, 101, 114, EQUALS>>)

(***************************************************************************)
(* Detection of the method type.                                           *)
(***************************************************************************)
\* The class or one of its superclasses has the method.
RECURSIVE Responds(_, _, _)
Responds(class_name, selector, is_instance_method) ==
    /\ class_name # None
    /\ \/ \E i \in 1..Len(Methods) :
             /\ Methods[i].cls = class_name /\ Methods[i].sel = selector
             /\ Methods[i].instance = is_instance_method
       \/ Responds(superclass_of(class_name), selector, is_instance_method)

\* The probe of the last command for class methods (FALSE) or instance
\* methods (TRUE) found the selector: its expression evaluated, the class
\* exists and responds.
ProbeFound(is_instance_method) ==
    /\ (IF is_instance_method THEN "instance" ELSE "class") \notin last.menv
    /\ last.class_name \in RuntimeClasses
    /\ Responds(last.class_name, last.selector, is_instance_method)

\* C26: when obrk or ocall detects the method type, the outcome is
\* ClassMethod if the class-method probe finds the selector, otherwise
\* InstanceMethod if the instance-method probe finds it, otherwise the
\* default; the command then works on a class method for ClassMethod and on
\* an instance method for the other two.
C26_DetectionProbesClassThenInstance ==
    last.op \in {"obrk", "ocall"}
    /\ last.path \in {"ClassMethod", "InstanceMethod", "UnknownDefaultsToInstance"}
        => /\ last.path = IF ProbeFound(FALSE) THEN "ClassMethod"
                          ELSE IF ProbeFound(TRUE) THEN "InstanceMethod"
                          ELSE "UnknownDefaultsToInstance"
           /\ last.show = IF last.path = "ClassMethod" THEN "class" ELSE "instance"
           /\ last.op = "obrk" /\ last.error = "none"
                 => MethodAt(last.addr).instance = (last.path # "ClassMethod")

\* obrk [FooBar hash], Foo having both +hash and -hash: detected as a class
\* method and the breakpoint set on +[Foo hash].
C26_Witness ==
    /\ last.op = "obrk" /\ last.class_name = FooBar /\ last.selector = Hash
    /\ last.path = "ClassMethod" /\ last.show = "class" /\ last.error = "none"
    /\ ~MethodAt(last.addr).instance /\ last.addr \in breakpoints[last.pid]

\* ocall [FooBar hash] with a failing class-method probe: detected as an
\* instance method, and refused for its receiver is a class name.
C26_WitnessCall ==
    /\ last.op = "ocall" /\ last.class_name = FooBar /\ last.selector = Hash
    /\ last.menv = {"class"} /\ last.path = "InstanceMethod"
    /\ last.show = "instance" /\ last.error = "invalid_receiver"

(***************************************************************************)
(* Failed batches of the conformance scan.                                 *)
(***************************************************************************)
\* The last command scanned the classes of the process for a protocol:
\* the protocol was found and the class list enumerated without failure.
ConformanceScanned ==
    /\ last.op = "oprotos" /\ last.show = "all"
    /\ last.path \in {"hit", "miss"} /\ ~last.crashed
    /\ last.env = NoFaults

\* C27: when nothing fails in the scan but a class-pointer batch or a
\* conformance batch, every class of the process that conforms to the
\* protocol is in the result.
C27_FailedBatchLeavesNoClassOut ==
    ConformanceScanned /\ last.menv \in {NoFaults} \cup ScanFaults(Len(ClassList(last.pid)))
        => \A n \in SeqSet(ClassesOf(last.pid)) :
              class_conformsToProtocol(n, last.pattern) => n \in SeqSet(last.names)

C28_WitnessPlain ==
    /\ last.op = "ocls" /\ last.force_reload /\ last.pattern = Foo
    /\ last.path = "fast" /\ last.names = <<Foo>>
    /\ ~_class_cache[last.pid].present

(***************************************************************************)
(* Repeated classes in a hierarchy.                                        *)
(***************************************************************************)
\* C29: the hierarchy returned never has the same class twice, whatever
\* superclass pointers the target presents.
C29_HierarchyNeverRepeatsAClass ==
    last.op = "hierarchy"
        => \A i, j \in 1..Len(last.names) : i # j => last.names[i] # last.names[j]

(***************************************************************************)
(* What the grouping keeps.                                                *)
(***************************************************************************)
\* The places of the grouped result where a class stands: as the root of
\* group k (position 0) or at position j of the subclasses of group k.
Places(class_name) ==
    {<<k, 0>> : k \in {k \in 1..Len(last.names) : last.names[k].root = class_name}}
    \cup {p \in (1..Len(last.names)) \X (1..Len(GroupClasses)) :
             /\ p[2] <= Len(last.names[p[1]].subclasses)
             /\ last.names[p[1]].subclasses[p[2]] = class_name}

\* C30: every conforming class given to the grouping stands at exactly one
\* place of its result, for every superclass-name map.
C30_GroupingLosesNothing ==
    last.op = "grouped"
        => \A i \in 1..Len(last.members) : Cardinality(Places(last.members[i][1])) = 1

(***************************************************************************)
(* Method queries answered from the cache.                                 *)
(***************************************************************************)
\* What a fresh enumeration of the methods of the class returns for the
\* pattern when no call fails.
FreshMethods(class_name, pattern, is_instance) ==
    SelFilter(get_methods_optimized(IF is_instance THEN InstanceMethods(class_name)
                                    ELSE ClassMethods(class_name), NoFaults).names,
              pattern)

\* C31: a method query answered from the cache has the instance-method and
\* class-method lists a fresh enumeration would give, whatever the earlier
\* queries on the class asked for.
C31_CachedMethodsEqualFresh ==
    last.op = "osel" /\ last.path = "hit"
        => /\ last.names = FreshMethods(last.class_name, last.pattern, TRUE)
           /\ last.members = FreshMethods(last.class_name, last.pattern, FALSE)

(***************************************************************************)
(* Incomplete enumerations and the class cache.                            *)
(***************************************************************************)
\* C32: when a batch of an enumeration was in trouble (null buffer, failed
\* buffer read, failed expression with its per-item fallback), the entry of
\* the process, if there is one, still holds a name for every class the
\* runtime listed: no entry is made of an incomplete enumeration.  Stated
\* for the default batch size, at which every name fits the buffer.
C32_EntryOnlyFromCompleteEnumeration ==
    last.op = "ocls" /\ last.path = "miss" /\ last.env # NoFaults
    /\ last.batch_size = DEFAULT_BATCH_SIZE
        => (_class_cache[last.pid].present
               => Len(_class_cache[last.pid].classes) = Len(ClassList(last.pid)))

(***************************************************************************)
(* The scope of --clear-cache.                                             *)
(***************************************************************************)
\* C33: ocls --clear-cache touches no class-cache entry but that of its
\* process (which it removes when it does nothing else) and no method-cache
\* entry; osel Class --clear-cache touches no method-cache entry but that
\* of its process and class (which it removes when it does nothing else)
\* and no class-cache entry.
C33_ClearingIsScoped ==
    [][/\ last'.op = "ocls" /\ last'.cleared
          => /\ \A q \in Pids \ {last'.pid} : _class_cache'[q] = _class_cache[q]
             /\ _selector_cache' = _selector_cache
             /\ last'.path = "clear" => ~_class_cache'[last'.pid].present
       /\ last'.op = "osel" /\ last'.cleared /\ last'.class_name # None
          => /\ \A q \in Pids : \A c \in SelClasses :
                   <<q, c>> # <<last'.pid, last'.class_name>>
                       => _selector_cache'[q][c] = _selector_cache[q][c]
             /\ _class_cache' = _class_cache
             /\ last'.path = "clear"
                   => ~_selector_cache'[last'.pid][last'.class_name].present]_vars

\* ocls --clear-cache in the first process removed its entry and left the
\* entry of the other process and the method lists of Foo in place.
C33_Witness ==
    /\ last.op = "ocls" /\ last.cleared /\ last.path = "clear" /\ last.pid = 1
    /\ ~_class_cache[1].present /\ _class_cache[3].present
    /\ _selector_cache[1][Foo].present

\* osel Foo --clear-cache in the other process removed that entry and left
\* its entry for Qux and the first process's entry for Foo in place.
C33_WitnessSel ==
    /\ last.op = "osel" /\ last.cleared /\ last.path = "clear"
    /\ last.pid = 3 /\ last.class_name = Foo
    /\ ~_selector_cache[3][Foo].present /\ _selector_cache[3][Qux].present
    /\ _selector_cache[1][Foo].present

(***************************************************************************)
(* The two paths of the ivar listing.                                      *)
(***************************************************************************)
\* C34: whichever path produced them, the descriptors of the ivars of a
\* class are those of the batched path and those of the serial path alike;
\* an ivar at offset 0 has offset 0 in them.
C34_IvarPathsAgree ==
    last.op = "ivars"
        => /\ last.names = ivar_descriptors(last.members, FALSE)
           /\ last.names = ivar_descriptors(last.members, TRUE)
           /\ \A i \in 1..Len(last.names) :
                 last.members[i].offset = 0 => last.names[i].offset = <<0>>

\* C34, apart from the offset: name and type encoding of every ivar are the
\* same on both paths, and so is every offset that is not 0.
C34_IvarPathsAgreeButOffsetZero ==
    last.op = "ivars"
        => LET b == ivar_descriptors(last.members, FALSE)
               f == ivar_descriptors(last.members, TRUE)
           IN  /\ last.names \in {b, f}
               /\ \A i \in 1..Len(last.names) :
                     /\ b[i].name = f[i].name /\ b[i].type = f[i].type
                     /\ last.members[i].offset # 0 => b[i].offset = f[i].offset

(***************************************************************************)
(* Names that exceed the space reserved for a batch.                       *)
(***************************************************************************)
\* The names of the present items of a batch, in order.
PresentNames(batch) ==
    NamesOf(SelectSeq(batch, LAMBDA ptr : ptr # 0))

\* C35: whatever the lengths of its names, a batch decodes to the complete
\* name of each of its present items, in order: none empty, cut short,
\* missing or taken from another item.
C35_EveryPresentItemDecodedWhole ==
    last.op = "buffer" => last.names = PresentNames(last.members)

(***************************************************************************)
(* The batch size and the result of the enumeration.                       *)
(***************************************************************************)
\* The batches of a pointer list one after the other.
RECURSIVE BatchesJoined(_, _, _)
BatchesJoined(ptrs, k, batch_size) ==
    IF k > NumBatches(Len(ptrs), batch_size) THEN <<>>
    ELSE BatchOf(ptrs, k, batch_size) \o BatchesJoined(ptrs, k + 1, batch_size)

\* C36: the batches of an enumeration, joined in order, are the pointer
\* list, and the enumeration returns the names it returns at the default
\* batch size, in the same order, whatever its batch size.
C36_BatchSizeDoesNotChangeResult ==
    last.op = "ocls" /\ last.path = "miss"
        => /\ BatchesJoined(ClassList(last.pid), 1, last.batch_size) = ClassList(last.pid)
           /\ last.names = Filter(Resolved(last.pid, DEFAULT_BATCH_SIZE, NoFaults),
                                  last.pattern)

\* C36, the partition alone.
C36_BatchesPartitionTheList ==
    last.op = "ocls" /\ last.path = "miss"
        => BatchesJoined(ClassList(last.pid), 1, last.batch_size) = ClassList(last.pid)


(***************************************************************************)
(* Claims about the watches of owatch.                                     *)
(***************************************************************************)
\* The table of the process and the target of the process.
WatchesOf(pid) == _active_watches_by_process[pid]

LoggedOf(pid) == lldb_target[pid].logged

\* A registered watch with a limit has taken fewer hits than its limit,
\* has logged one line per hit and still has its breakpoint.
WatchBelowLimit ==
    \A pid \in Pids : \A bp_id \in DOMAIN WatchesOf(pid) :
        LET info == WatchesOf(pid)[bp_id]
        IN  /\ info.count_limit > 0 => info.hit_count < info.count_limit
            /\ LoggedOf(pid)[bp_id] = info.hit_count
            /\ bp_id \in lldb_target[pid].breakpoints

\* One hit of a registered watch: the N-th hit of a watch with limit N
\* logs its N-th line, deletes the breakpoint and removes the entry; any
\* other hit logs one line and leaves the watch registered.
HitCountsOrRemoves ==
    \A pid \in Pids : \A bp_id \in DOMAIN WatchesOf(pid) :
        (last'.op = "hit" /\ last'.pid = pid /\ last'.count = bp_id) =>
            LET info == WatchesOf(pid)[bp_id]
            IN  IF info.count_limit > 0 /\ info.hit_count + 1 = info.count_limit
                THEN /\ bp_id \notin DOMAIN WatchesOf(pid)'
                     /\ bp_id \notin lldb_target'[pid].breakpoints
                     /\ LoggedOf(pid)'[bp_id] = info.count_limit
                ELSE /\ bp_id \in DOMAIN WatchesOf(pid)'
                     /\ bp_id \in lldb_target'[pid].breakpoints
                     /\ WatchesOf(pid)'[bp_id].hit_count = info.hit_count + 1
                     /\ LoggedOf(pid)'[bp_id] = info.hit_count + 1

\* A watch that is gone stays gone and logs nothing more.
RemovedStaysSilent ==
    \A pid \in Pids : \A bp_id \in DOMAIN LoggedOf(pid) \ DOMAIN WatchesOf(pid) :
        /\ bp_id \notin DOMAIN WatchesOf(pid)'
        /\ LoggedOf(pid)'[bp_id] = LoggedOf(pid)[bp_id]

\* C37: a watch with limit N (--count=N, or --once for N = 1) logs exactly
\* N hits: while it is registered its hit count is below N, its N-th hit
\* deletes its breakpoint and removes its entry from the table of the
\* process, after which it logs nothing; a watch without a limit is never
\* removed by a hit.
C37_WatchLogsExactlyItsLimit ==
    /\ []WatchBelowLimit
    /\ [][HitCountsOrRemoves /\ RemovedStaysSilent]_vars

\* A watch with --count=2 took its second hit and is gone, with two lines
\* logged.
C37_Witness ==
    /\ last.op = "hit" /\ last.path = "removed" /\ last.reads = 2
    /\ last.count \notin DOMAIN WatchesOf(last.pid)
    /\ last.count \notin lldb_target[last.pid].breakpoints
    /\ LoggedOf(last.pid)[last.count] = 2

\* A watch without a limit took MaxHits hits and is still registered.
C37_WitnessNoLimit ==
    /\ last.op = "hit" /\ last.path = "logged" /\ last.reads = MaxHits
    /\ last.count \in DOMAIN WatchesOf(last.pid)
    /\ WatchesOf(last.pid)[last.count].count_limit = 0

\* The table of every process holds exactly the owatch breakpoints of its
\* target.
TableIsTheWatchedBreakpoints ==
    \A pid \in Pids : DOMAIN WatchesOf(pid) = lldb_target[pid].breakpoints

\* What each step does to the table of its process: a successful owatch
\* adds the breakpoint it created, a failed one changes neither the table
\* nor the breakpoints, a hit removes at most the breakpoint hit and only
\* at its limit, clear removes everything, list nothing.
TableFollowsCommands ==
    \A pid \in Pids :
        LET before == DOMAIN WatchesOf(pid)
            after == DOMAIN WatchesOf(pid)'
        IN  /\ last'.pid # pid => after = before
            /\ last'.pid = pid =>
                CASE last'.op = "owatch" /\ last'.error = "none" ->
                        /\ last'.count \notin before
                        /\ after = before \cup {last'.count}
                  [] last'.op = "owatch" /\ last'.error # "none" ->
                        /\ WatchesOf(pid)' = WatchesOf(pid)
                        /\ lldb_target'[pid].breakpoints = lldb_target[pid].breakpoints
                  [] last'.op = "hit" ->
                        after = IF last'.path = "removed" THEN before \ {last'.count}
                                ELSE before
                  [] last'.op = "owatch_clear" ->
                        /\ after = {}
                        /\ lldb_target'[pid].breakpoints \cap before = {}
                  [] OTHER -> after = before

\* C38: the table of a process holds exactly the breakpoints that
\* successful owatch commands created and that neither their hit limit nor
\* owatch clear has removed; a failed owatch leaves no breakpoint and no
\* entry; owatch clear deletes every watched breakpoint and empties the
\* table.
C38_TableHoldsExactlyTheLiveWatches ==
    /\ []TableIsTheWatchedBreakpoints
    /\ [][TableFollowsCommands]_vars

\* owatch clear removed two watches; before it, an owatch whose callback
\* could not be installed had used up a breakpoint id.
C38_Witness ==
    /\ last.op = "owatch_clear" /\ last.count = 2
    /\ WatchesOf(last.pid) = NoWatches
    /\ lldb_target[last.pid].breakpoints = {}

\* An owatch whose callback could not be installed: the breakpoint it
\* created is deleted again.
C38_WitnessFailed ==
    /\ last.op = "owatch" /\ last.error = "callback_failed" /\ last.count > 0
    /\ last.count \notin lldb_target[last.pid].breakpoints
    /\ last.count \notin DOMAIN WatchesOf(last.pid)
====
